---------------------------- MODULE Spec2Model ----------------------------
(***************************************************************************)
(* A model of spefit: the parameter model and density wrapper              *)
(* (spefit/pdf/base.py) and the cost layer (spefit/cost.py) with its data  *)
(* containers (spefit/container.py).                                       *)
(*                                                                         *)
(* Python objects live in a heap (a sequence of PDFParameter records, an   *)
(* object's identity being its index), dicts are sequences of key/value    *)
(* pairs in insertion order, numpy arrays are sequences, and every call of *)
(* the public interface leaves its outcome (return value or exception) in  *)
(* the variable result.  Array offsets stay 0-based as in the source; the  *)
(* element with offset k of an array a is a[k + 1].                        *)
(***************************************************************************)
EXTENDS Integers, Sequences, FiniteSets, TLC

VARIABLES
    heap,               \* the PDFParameter objects, by identity (index)
    declarations,       \* the caller's dict passed to PDF.__init__
    n_illuminations,    \* PDF._n_illuminations
    parameters,         \* PDF._parameters
    parameter_is_multi, \* PDF._parameter_is_multi
    lookup,             \* PDF._lookup
    cost,               \* the Cost object last constructed, or NoCost
    result,             \* outcome of the last call
    n_calls,            \* number of calls made so far
    subclasses,         \* PDF.__subclasses__(): the classes imported so far
    fitter,             \* the CameraFitter object
    pool,               \* the run of CameraFitter.process or .multiprocess
    mixture             \* the run of a mixture-density function

vars == <<heap, declarations, n_illuminations, parameters, parameter_is_multi,
          lookup, cost, result, n_calls, subclasses, fitter, pool, mixture>>

\* what the calls on a PDF and on a Cost leave alone
ext_vars == <<subclasses, fitter, pool, mixture>>

pdf_vars == <<heap, declarations, n_illuminations, parameters,
              parameter_is_multi, lookup>>

----------------------------------------------------------------------------
(* Bounds of the model.                                                    *)

\* largest illumination count a PDF is constructed with
MaxIllum == 2
\* number of update_* calls in one behaviour
MaxUpdates == 1

\* the numbers of keyword arguments an update_* call is made with
KwargsLengths == {0, 1, 2}

\* the key orders of the dicts of declarations a PDF is constructed from;
\* "s0" is also what replica 0 of a multi declaration "s" is called
DeclKeySeqs == {<<"s">>, <<"m", "s">>, <<"s", "s0">>, <<"s0", "s">>}

----------------------------------------------------------------------------
(* Python dicts: sequences of [key, val] with distinct keys, in insertion  *)
(* order.  Assigning to an existing key keeps its position.                *)

EmptyDict == << >>

DictKeys(d) == [j \in 1..Len(d) |-> d[j].key]

DictHas(d, k) == \E j \in 1..Len(d) : d[j].key = k

DictPos(d, k) == CHOOSE j \in 1..Len(d) : d[j].key = k

DictGet(d, k) == d[DictPos(d, k)].val

DictSet(d, k, v) ==
    IF DictHas(d, k)
    THEN [d EXCEPT ![DictPos(d, k)] = [key |-> k, val |-> v]]
    ELSE Append(d, [key |-> k, val |-> v])

\* dict.get(k, default)
DictGetDefault(d, k, default) == IF DictHas(d, k) THEN DictGet(d, k) ELSE default

----------------------------------------------------------------------------
(* PDFParameter and the construction of a PDF.                             *)

Tuple(items) == [items |-> items, type |-> "tuple"]
List(items) == [items |-> items, type |-> "list"]

\* tuple(value)
ToTuple(value) == [items |-> value.items, type |-> "tuple"]

PDFParameter(initial, limits, fixed, multi) ==
    [initial |-> initial, limits |-> limits, fixed |-> fixed, multi |-> multi]

\* f"{name}{i_illumination}"
MultiName(name, i_illumination) == name \o ToString(i_illumination)

\* a variant of copy(param) that gives the object at ref itself
Copy_sharing(h, ref) == [heap |-> h, ref |-> ref]

\* copy(param): a new object with the attribute values of the object at ref;
\* gives the grown heap and the new object's reference
Copy(h, ref) == [heap |-> Append(h, h[ref]), ref |-> Len(h) + 1]

\* np.zeros((n_rows, n_cols), dtype=np.int)
Zeros(n_rows, n_cols) == [r \in 1..n_rows |-> [c \in 1..n_cols |-> 0]]

\* the loop "for i_illumination in range(n_illuminations)" of a multi
\* declaration, from i_illumination on
RECURSIVE MultiLoop(_, _, _, _, _, _)
MultiLoop(acc, name, ref, i_param, i_illumination, n) ==
    IF i_illumination >= n THEN acc
    ELSE LET c == Copy(acc.heap, ref)
         IN  MultiLoop(
                 [acc EXCEPT
                     !.lookup[i_illumination + 1][i_param + 1] = acc.i_lookup,
                     !.parameter_dict =
                         DictSet(acc.parameter_dict,
                                 MultiName(name, i_illumination), c.ref),
                     !.heap = c.heap,
                     !.i_lookup = acc.i_lookup + 1],
                 name, ref, i_param, i_illumination + 1, n)

\* the loop "for i_illumination in range(n_illuminations)" of a declaration
\* that is not multi
SharedLoop(acc, i_param, n) ==
    [acc EXCEPT !.lookup =
        [r \in 1..n |-> [acc.lookup[r] EXCEPT ![i_param + 1] = acc.i_lookup]]]

\* the loop over enumerate(parameters.items()), from i_param on
RECURSIVE PrepareLoop(_, _, _, _)
PrepareLoop(acc, params, i_param, n) ==
    IF i_param >= Len(params) THEN acc
    ELSE LET name == params[i_param + 1].key
             ref == params[i_param + 1].val
         IN  IF acc.heap[ref].multi
             THEN PrepareLoop(
                      MultiLoop(
                          [acc EXCEPT !.parameter_is_multi =
                              DictSet(acc.parameter_is_multi, name, TRUE)],
                          name, ref, i_param, 0, n),
                      params, i_param + 1, n)
             ELSE LET a == SharedLoop(
                               [acc EXCEPT !.parameter_is_multi =
                                   DictSet(acc.parameter_is_multi, name, FALSE)],
                               i_param, n)
                      c == Copy(a.heap, ref)
                  IN  PrepareLoop(
                          [a EXCEPT
                              !.parameter_dict =
                                  DictSet(a.parameter_dict, name, c.ref),
                              !.heap = c.heap,
                              !.i_lookup = a.i_lookup + 1],
                          params, i_param + 1, n)

\* PDF._prepare_parameters, on the heap h
_prepare_parameters(h, params, n) ==
    PrepareLoop([heap |-> h,
                 parameter_is_multi |-> EmptyDict,
                 lookup |-> Zeros(n, Len(params)),
                 i_lookup |-> 0,
                 parameter_dict |-> EmptyDict],
                params, 0, n)

----------------------------------------------------------------------------
(* The density wrapper.                                                    *)

\* an attribute that holds an array, or None
Array(data) == [data |-> data, none |-> FALSE]
None == [data |-> << >>, none |-> TRUE]

\* a[i] for a numpy array a and a Python int i: a negative index counts
\* from the end, an index out of range is an IndexError
IndexOk(a, i) == -Len(a) <= i /\ i < Len(a)
Index(a, i) == IF i < 0 THEN a[Len(a) + i + 1] ELSE a[i + 1]

\* a[row] for a numpy array a and an array row of offsets (none negative)
TakeOk(a, row) == \A c \in 1..Len(row) : row[c] < Len(a)
Take(a, row) == [c \in 1..Len(row) |-> a[row[c] + 1]]

\* a variant of PDF._lookup_parameters that takes the row of the first
\* illumination for every illumination
_lookup_parameters_first(params, i_illumination) ==
    IF ~IndexOk(lookup, i_illumination) THEN [val |-> << >>, exc |-> "IndexError"]
    ELSE IF ~TakeOk(params, Index(lookup, 0))
         THEN [val |-> << >>, exc |-> "IndexError"]
         ELSE [val |-> Take(params, Index(lookup, 0)), exc |-> "none"]

\* PDF._lookup_parameters
_lookup_parameters(params, i_illumination) ==
    IF ~IndexOk(lookup, i_illumination) THEN [val |-> << >>, exc |-> "IndexError"]
    ELSE IF ~TakeOk(params, Index(lookup, i_illumination))
         THEN [val |-> << >>, exc |-> "IndexError"]
         ELSE [val |-> Take(params, Index(lookup, i_illumination)), exc |-> "none"]

\* self._function(x, *args): the value of the bound density function, which
\* is any callable, as the term naming its arguments
Function(x, args) == [x |-> x, args |-> args]

\* PDF.__call__
PDFCall(x, params, i_illumination) ==
    LET a == _lookup_parameters(params, i_illumination)
    IN  IF a.exc # "none" THEN [val |-> 0, exc |-> a.exc]
        ELSE [val |-> Function(x, a.val), exc |-> "none"]

----------------------------------------------------------------------------
(* The update_* mutators.                                                  *)

\* a variant of setattr that also clears the multi flag of the object
SetAttr_clearing(h, ref, attribute, value) ==
    [h EXCEPT ![ref] = [@ EXCEPT ![attribute] = value, !.multi = FALSE]]

\* setattr(obj, attribute, value) on the object at ref
SetAttr(h, ref, attribute, value) == [h EXCEPT ![ref][attribute] = value]

\* the loop of _update_parameter over the replicas of a multi declaration
RECURSIVE UpdateMultiLoop(_, _, _, _, _)
UpdateMultiLoop(h, attribute, name, value, i_illumination) ==
    IF i_illumination >= n_illuminations THEN h
    ELSE UpdateMultiLoop(
             SetAttr(h, DictGet(parameters, MultiName(name, i_illumination)),
                     attribute, value),
             attribute, name, value, i_illumination + 1)

\* a variant of _update_parameter that skips a name it does not know
_update_parameter_ignoring(h, attribute, name, value) ==
    IF ~DictHas(parameters, name)
    THEN IF DictGetDefault(parameter_is_multi, name, FALSE)
         THEN [heap |-> UpdateMultiLoop(h, attribute, name, value, 0),
               exc |-> "none"]
         ELSE [heap |-> h, exc |-> "none"]
    ELSE [heap |-> SetAttr(h, DictGet(parameters, name), attribute, value),
          exc |-> "none"]

\* PDF._update_parameter on the heap h
_update_parameter(h, attribute, name, value) ==
    IF ~DictHas(parameters, name)
    THEN IF DictGetDefault(parameter_is_multi, name, FALSE)
         THEN [heap |-> UpdateMultiLoop(h, attribute, name, value, 0),
               exc |-> "none"]
         ELSE [heap |-> h, exc |-> "ValueError"]
    ELSE [heap |-> SetAttr(h, DictGet(parameters, name), attribute, value),
          exc |-> "none"]

\* a variant of the loop of an update_* method that undoes the changes of the
\* call when an exception ends it
RECURSIVE UpdateLoop_restoring(_, _, _, _)
UpdateLoop_restoring(h, attribute, kwargs, j) ==
    IF j > Len(kwargs) THEN [heap |-> h, key |-> "", exc |-> "none"]
    ELSE LET value == IF attribute = "limits" THEN ToTuple(kwargs[j].val)
                      ELSE kwargs[j].val
             r == _update_parameter(h, attribute, kwargs[j].key, value)
         IN  IF r.exc # "none"
             THEN [heap |-> heap, key |-> kwargs[j].key, exc |-> r.exc]
             ELSE UpdateLoop_restoring(r.heap, attribute, kwargs, j + 1)

\* the loop "for name, value in kwargs.items()" of an update_* method, from
\* the j-th keyword argument on; an exception ends it
RECURSIVE UpdateLoop(_, _, _, _)
UpdateLoop(h, attribute, kwargs, j) ==
    IF j > Len(kwargs) THEN [heap |-> h, key |-> "", exc |-> "none"]
    ELSE LET value == IF attribute = "limits" THEN ToTuple(kwargs[j].val)
                      ELSE kwargs[j].val
             r == _update_parameter(h, attribute, kwargs[j].key, value)
         IN  IF r.exc # "none"
             THEN [heap |-> r.heap, key |-> kwargs[j].key, exc |-> r.exc]
             ELSE UpdateLoop(r.heap, attribute, kwargs, j + 1)

----------------------------------------------------------------------------
(* The data containers (spefit/container.py).                              *)

RECURSIVE SumSeq(_)
SumSeq(a) == IF a = << >> THEN 0 ELSE a[1] + SumSeq(Tail(a))

\* values[(values >= range_[0]) & (values <= range_[1])]
InRange(values, range_) ==
    LET Keep(v) == v >= range_[1] /\ v <= range_[2]
    IN  SelectSeq(values, Keep)

\* the outer edges np.histogram bins over: a range whose ends are equal is
\* widened by 0.5 on both sides (the charges of the model are in units of
\* 0.5)
OuterEdges(range_) ==
    IF range_[1] = range_[2] THEN <<range_[1] - 1, range_[2] + 1>> ELSE range_

\* the edges np.histogram gives for bins of equal width over range_ (the
\* model's ranges are integers whose width n_bins divides)
Edges(n_bins, range_) ==
    [k \in 1..(n_bins + 1) |->
        OuterEdges(range_)[1]
        + ((k - 1) * (OuterEdges(range_)[2] - OuterEdges(range_)[1])) \div n_bins]

\* the bin np.histogram counts v in: bins are half-open, the last is closed
BinOf(v, n_bins, range_) ==
    IF v = OuterEdges(range_)[2] THEN n_bins
    ELSE ((v - OuterEdges(range_)[1]) * n_bins)
           \div (OuterEdges(range_)[2] - OuterEdges(range_)[1]) + 1

\* np.histogram(values, bins=n_bins, range=range_)[0]
Histogram(values, n_bins, range_) ==
    [b \in 1..n_bins |->
        Cardinality({j \in 1..Len(values) :
                        /\ values[j] >= OuterEdges(range_)[1]
                        /\ values[j] <= OuterEdges(range_)[2]
                        /\ BinOf(values[j], n_bins, range_) = b})]

\* (edges[1:] + edges[:-1]) / 2, each centre as <<numerator, denominator>>
Between(edges) == [b \in 1..(Len(edges) - 1) |-> <<edges[b + 1] + edges[b], 2>>]

\* ChargeContainer.__init__
ChargeContainer(values, n_bins, range_) ==
    [values |-> Array(InRange(values, range_)),
     edges |-> Array(Edges(n_bins, range_)),
     between |-> Between(Edges(n_bins, range_)),
     hist |-> Histogram(values, n_bins, range_)]

\* ChargeContainer.from_prebinned
from_prebinned(x, y) ==
    [values |-> None, edges |-> None, between |-> x, hist |-> y]

----------------------------------------------------------------------------
(* The cost layer (spefit/cost.py).                                        *)

\* the count a bin must exceed to enter the least-squares sum
MinCount == 5

\* PDF.n_free_parameters
n_free_parameters ==
    Cardinality({j \in 1..Len(parameters) : ~heap[parameters[j].val].fixed})

\* np.sum(d_y) / np.sum(f_y), f_y being the term of a density evaluation
Scale(f_y, d_y) == [sum_d_y |-> SumSeq(d_y), sum_f_y |-> f_y]

\* _sum_log_x
_sum_log_x(f) == [x |-> f, fn |-> "sum(log(x))"]

\* _bin_nll, on bin b of the scaled density
_bin_nll(f_y, scale, b, d_y) ==
    IF d_y = 0
    THEN [f_y |-> f_y, d_y |-> d_y, fn |-> "f_y", scale |-> scale, bin |-> b]
    ELSE [f_y |-> f_y,
          d_y |-> d_y, fn |-> "f_y - d_y - xlogy(d_y, f_y / d_y)", scale |-> scale, bin |-> b]

\* _total_binned_nll: the terms np.sum adds, one per bin
_total_binned_nll(f_y, d_y) ==
    [b \in 1..Len(d_y) |-> _bin_nll(f_y, Scale(f_y, d_y), b - 1, d_y[b])]

\* a variant of the mask that also selects the bins that hold MinCount
Gt5_inclusive(d_y) == [b \in 1..Len(d_y) |-> d_y[b] >= MinCount]

\* gt5 = d_y > 5
Gt5(d_y) == [b \in 1..Len(d_y) |-> d_y[b] > MinCount]

\* the offsets a boolean mask selects, in ascending order
RECURSIVE MaskOffsets(_, _)
MaskOffsets(mask, b) ==
    IF b > Len(mask) THEN << >>
    ELSE (IF mask[b] THEN <<b - 1>> ELSE << >>) \o MaskOffsets(mask, b + 1)

\* _least_squares: the terms np.sum adds, one per bin the mask selects
_least_squares(f_y, d_y) ==
    LET sel == MaskOffsets(Gt5(d_y), 1)
    IN  [j \in 1..Len(sel) |->
            [f_y |-> f_y,
             d_y |-> d_y[sel[j] + 1], fn |-> "(d_y - f_ys) ** 2 / d_y",
             scale |-> Scale(f_y, d_y), bin |-> sel[j]]]

NoCost == [n_illuminations |-> 0, n_free_parameters |-> 0, charges |-> << >>,
           kind |-> "none"]

\* the subclasses of Cost, in the order Cost.__subclasses__() lists them
CostSubclasses == <<"UnbinnedNLL", "BinnedNLL", "LeastSquares">>

\* a variant of Cost.__init__ without the check of the number of containers
CostInit_unchecked(kind, charges) ==
    [exc |-> "none",
     obj |-> [n_illuminations |-> Len(charges),
              n_free_parameters |-> n_free_parameters,
              charges |-> charges,
              kind |-> kind]]

\* Cost.__init__ of the subclass kind: the object, and the exception raised
CostInit(kind, charges) ==
    [exc |-> IF Len(charges) # n_illuminations THEN "ValueError" ELSE "none",
     obj |-> [n_illuminations |-> Len(charges),
              n_free_parameters |-> n_free_parameters,
              charges |-> charges,
              kind |-> kind]]

\* Cost.from_name: the loop over the subclasses, from the j-th on
RECURSIVE FromNameLoop(_, _, _)
FromNameLoop(name, charges, j) ==
    IF j > Len(CostSubclasses) THEN [exc |-> "ValueError", obj |-> NoCost]
    ELSE IF CostSubclasses[j] = name THEN CostInit(CostSubclasses[j], charges)
         ELSE FromNameLoop(name, charges, j + 1)

\* the term of one illumination of the objective of a cost of this kind
CostTerm(kind, container, f) ==
    CASE kind = "UnbinnedNLL" -> [neg |-> _sum_log_x(f)]
      [] kind = "BinnedNLL" -> _total_binned_nll(f, container.hist)
      [] kind = "LeastSquares" -> _least_squares(f, container.hist)

\* what the density is evaluated at for a cost of this kind
CostX(kind, container) ==
    IF kind = "UnbinnedNLL" THEN container.values ELSE Array(container.between)

\* Cost.__call__: the loop over the illuminations from i on, acc being the
\* terms added so far
RECURSIVE CostLoop(_, _, _, _)
CostLoop(c, params, i, acc) ==
    IF i >= c.n_illuminations THEN [val |-> acc, exc |-> "none"]
    ELSE LET f == PDFCall(CostX(c.kind, c.charges[i + 1]), params, i)
         IN  IF f.exc # "none" THEN [val |-> 0, exc |-> f.exc]
             ELSE CostLoop(c, params, i + 1,
                           Append(acc, CostTerm(c.kind, c.charges[i + 1], f.val)))

CostCall(c, params) == CostLoop(c, params, 0, << >>)

\* the number of observations of one container for a cost of this kind
Observations(kind, container) ==
    CASE kind = "UnbinnedNLL" -> Len(container.values.data)
      [] kind = "BinnedNLL" -> Len(container.hist)
      [] kind = "LeastSquares" ->
            Cardinality({b \in 1..Len(container.hist) :
                            container.hist[b] > MinCount})

\* Cost.dof
CostDof(c) ==
    IF c.kind = "UnbinnedNLL"
       /\ \E i \in 1..Len(c.charges) : c.charges[i].values.none
    THEN [val |-> 0, exc |-> "AttributeError"]
    ELSE [val |-> SumSeq([i \in 1..Len(c.charges) |->
                            Observations(c.kind, c.charges[i])])
                  - c.n_free_parameters,
          exc |-> "none"]

\* a variant of Cost.chi2 in which BinnedNLL returns the objective undoubled
CostChi2_undoubled(c, params) ==
    CASE c.kind = "UnbinnedNLL" -> [val |-> 0, exc |-> "ValueError"]
      [] c.kind = "BinnedNLL" -> CostCall(c, params)
      [] c.kind = "LeastSquares" -> CostCall(c, params)

\* Cost.chi2
CostChi2(c, params) ==
    CASE c.kind = "UnbinnedNLL" -> [val |-> 0, exc |-> "ValueError"]
      [] c.kind = "BinnedNLL" ->
            LET r == CostCall(c, params)
            IN  IF r.exc # "none" THEN r
                ELSE [val |-> [by |-> 2, mul |-> r.val], exc |-> "none"]
      [] c.kind = "LeastSquares" -> CostCall(c, params)

\* a variant of Cost.reduced_chi2 and Cost.p_value that evaluates dof first
CostScore_dof_first(c, params, op) ==
    LET chi2 == CostChi2(c, params)
        dof == CostDof(c)
    IN  IF dof.exc # "none" THEN dof
        ELSE IF chi2.exc # "none" THEN chi2
             ELSE [val |-> [fn |-> op, chi2 |-> chi2.val, dof |-> dof.val],
                   exc |-> "none"]

\* Cost.reduced_chi2 and Cost.p_value: chi2 is evaluated first, then dof,
\* then the two are combined by op
CostScore(c, params, op) ==
    LET chi2 == CostChi2(c, params)
        dof == CostDof(c)
    IN  IF chi2.exc # "none" THEN chi2
        ELSE IF dof.exc # "none" THEN dof
             ELSE [val |-> [fn |-> op, chi2 |-> chi2.val, dof |-> dof.val],
                   exc |-> "none"]

----------------------------------------------------------------------------
(* Outcomes of calls.                                                      *)

Returned(op, arg, val) ==
    [key |-> "", val |-> val, exc |-> "none", op |-> op, arg |-> arg]

Raised(op, arg, exc, key) ==
    [key |-> key, val |-> 0, exc |-> exc, op |-> op, arg |-> arg]

----------------------------------------------------------------------------
(* The state outside the PDF and the Cost object, before anything ran.     *)

\* PDF.__subclasses__() once the package spefit.pdf is imported: the classes
\* its __init__ imports, in that order
PackageSubclasses == <<"PMTSingleGaussian", "SiPMGentile", "SiPMGeneralizedPoisson">>

\* no mixture-density function was called
NoMixture == [variant |-> "none"]

\* no CameraFitter was constructed, no run started
NoFitter == [cost_name |-> "none"]
NoPool == [mode |-> "idle"]

ExtInit ==
    /\ subclasses = PackageSubclasses
    /\ fitter = NoFitter
    /\ pool = NoPool
    /\ mixture = NoMixture

----------------------------------------------------------------------------
(* The initial states: a PDF constructed from a dict of declarations.      *)

\* PDF.__init__ with a function and a dict of parameters
PDFInit(keys, multis, n) ==
    LET h0 == [j \in 1..Len(keys) |->
                  PDFParameter(0, Tuple(<<0, 1>>), FALSE, multis[j])]
        d0 == [j \in 1..Len(keys) |-> [key |-> keys[j], val |-> j]]
        r == _prepare_parameters(h0, d0, n)
    IN  /\ declarations = d0
        /\ n_illuminations = n
        /\ heap = r.heap
        /\ parameters = r.parameter_dict
        /\ parameter_is_multi = r.parameter_is_multi
        /\ lookup = r.lookup

Init ==
    /\ \E keys \in DeclKeySeqs :
         \E multis \in [1..Len(keys) -> BOOLEAN] :
           \E n \in 0..MaxIllum :
             PDFInit(keys, multis, n)
    /\ cost = NoCost
    /\ result = Returned("init", << >>, 0)
    /\ n_calls = 0
    /\ ExtInit

----------------------------------------------------------------------------
(* The calls a user makes on the PDF.                                      *)

\* the keys an update_* call is made with: the declared names, the names of
\* the expanded entries, and each declared name suffixed by the first index
\* that is no illumination
CandidateKeys ==
    {declarations[j].key : j \in 1..Len(declarations)}
    \cup {parameters[j].key : j \in 1..Len(parameters)}
    \cup {MultiName(declarations[j].key, n_illuminations) :
             j \in 1..Len(declarations)}

\* the keyword arguments of a call: k distinct keys, in order
RECURSIVE KwargsOfLength(_, _, _)
KwargsOfLength(keys, values, k) ==
    IF k = 0 THEN {<< >>}
    ELSE {Append(t[1], [key |-> t[2], val |-> t[3]]) :
            t \in {u \in KwargsOfLength(keys, values, k - 1) \X keys \X values :
                      \A j \in 1..Len(u[1]) : u[1][j].key # u[2]}}

KwargsSet(values, lengths) ==
    UNION {KwargsOfLength(CandidateKeys, values, k) : k \in lengths}

\* an update_* method: the loop over the keyword arguments
Update(op, attribute, kwargs) ==
    LET r == UpdateLoop(heap, attribute, kwargs, 1)
    IN  /\ heap' = r.heap
        /\ result' = IF r.exc = "none" THEN Returned(op, kwargs, 0)
                      ELSE Raised(op, kwargs, r.exc, r.key)
        /\ UNCHANGED <<declarations, n_illuminations, parameters,
                       parameter_is_multi, lookup, cost, ext_vars>>

update_parameters_initial(lengths) ==
    \E kwargs \in KwargsSet({1}, lengths) :
        Update("update_parameters_initial", "initial", kwargs)

update_parameters_limits(lengths) ==
    \E kwargs \in KwargsSet({List(<<0, 2>>)}, lengths) :
        Update("update_parameters_limits", "limits", kwargs)

update_parameters_fixed(lengths) ==
    \E kwargs \in KwargsSet({TRUE}, lengths) :
        Update("update_parameters_fixed", "fixed", kwargs)

\* the flat vectors a density is evaluated with: element k holds the marker
\* 100 + k, so that the place of each selected element shows in the result
Vector(len) == [k \in 1..len |-> 99 + k]

\* the vectors of one value per expanded entry, and of one value less
Vectors == {Vector(len) : len \in {Len(parameters) - 1, Len(parameters)} \cap Nat}

\* PDF.__call__(x, parameters, i_illumination)
Call(x, params, i_illumination) ==
    LET r == PDFCall(x, params, i_illumination)
        arg == [parameters |-> params, i_illumination |-> i_illumination, x |-> x]
    IN  /\ result' = IF r.exc = "none" THEN Returned("call", arg, r.val)
                      ELSE Raised("call", arg, r.exc, "")
        /\ UNCHANGED <<pdf_vars, cost, ext_vars>>

----------------------------------------------------------------------------
(* Spec: update_* calls on a PDF.                                          *)

UpdateInitial ==
    /\ n_calls < MaxUpdates
    /\ n_calls' = n_calls + 1
    /\ update_parameters_initial(KwargsLengths)

UpdateLimits ==
    /\ n_calls < MaxUpdates
    /\ n_calls' = n_calls + 1
    /\ update_parameters_limits({1})

UpdateFixed ==
    /\ n_calls < MaxUpdates
    /\ n_calls' = n_calls + 1
    /\ update_parameters_fixed({1})

Next == UpdateInitial \/ UpdateLimits \/ UpdateFixed

Spec == Init /\ [][Next]_vars

----------------------------------------------------------------------------
(* SpecCall: update_* calls on a PDF, then evaluations of the density.     *)

CallUpdateInitial ==
    /\ n_calls < MaxUpdates
    /\ n_calls' = n_calls + 1
    /\ update_parameters_initial({1})

Evaluate ==
    /\ n_calls <= MaxUpdates
    /\ n_calls' = n_calls + 1
    /\ \E params \in Vectors :
         \E i \in (-(n_illuminations + 1))..n_illuminations :
           Call(Array(<<0>>), params, i)

NextCall == CallUpdateInitial \/ UpdateLimits \/ UpdateFixed \/ Evaluate

SpecCall == Init /\ [][NextCall]_vars

----------------------------------------------------------------------------
(* SpecCost: a PDF, the cost objects constructed on it, update_* calls on  *)
(* the PDF and reads of the cost objects, in any order.                    *)

\* k times the sample v
Repeat(v, k) == [j \in 1..k |-> v]

\* the charge samples of illumination i: with two bins over (0, 2), 5 + i
\* fall in the first bin, six in the second (one of them on the upper edge
\* of the range), and one falls outside the range
Samples(i) == Repeat(0, 5 + i) \o Repeat(1, 5) \o <<2, 3>>

\* the data of illumination i, from raw samples and prebinned
RawContainers ==
    [i \in 0..MaxIllum |-> ChargeContainer(Samples(i), 2, <<0, 2>>)]
PrebinnedContainers ==
    [i \in 0..MaxIllum |-> from_prebinned(<<<<1, 2>>, <<3, 2>>>>, <<6 + i, 5>>)]

\* the lists of containers a cost is constructed with: one container per
\* illumination, all from raw samples or all prebinned, and lists of one
\* container less and one more
ChargesLists ==
    {[i \in 1..len |-> RawContainers[i - 1]] :
        len \in {n_illuminations - 1, n_illuminations, n_illuminations + 1} \cap Nat}
    \cup {[i \in 1..n_illuminations |-> PrebinnedContainers[i - 1]]}

InitCost ==
    /\ \E n \in 0..MaxIllum : PDFInit(<<"m", "s">>, <<FALSE, TRUE>>, n)
    /\ cost = NoCost
    /\ result = Returned("init", << >>, 0)
    /\ n_calls = 0
    /\ ExtInit

\* the outcome of a construction: the variable cost holds the object when
\* there is one
Constructed(op, name, charges, r) ==
    /\ result' = IF r.exc = "none"
                  THEN Returned(op, [name |-> name, charges |-> charges], r.obj)
                  ELSE Raised(op, [name |-> name, charges |-> charges], r.exc, "")
    /\ cost' = IF r.exc = "none" THEN r.obj ELSE cost
    /\ UNCHANGED <<pdf_vars, n_calls, ext_vars>>

\* UnbinnedNLL(pdf, charges), BinnedNLL(pdf, charges), LeastSquares(pdf, charges)
CostConstruct ==
    \E j \in 1..Len(CostSubclasses) :
      \E charges \in ChargesLists :
        Constructed("Cost", CostSubclasses[j], charges,
                    CostInit(CostSubclasses[j], charges))

\* Cost.from_name(name, pdf, charges)
CostFromName ==
    \E name \in {CostSubclasses[j] : j \in 1..Len(CostSubclasses)} \cup {"NULL"} :
      \E charges \in ChargesLists :
        Constructed("from_name", name, charges, FromNameLoop(name, charges, 1))

CostUpdateFixed ==
    /\ \E kwargs \in KwargsSet({TRUE}, {1}) :
          Update("update_parameters_fixed", "fixed", kwargs)
    /\ UNCHANGED n_calls

\* a variant of a read that refreshes the number of free parameters the
\* cost object holds
Read_refreshing(op, arg, r) ==
    /\ cost # NoCost
    /\ result' = IF r.exc = "none" THEN Returned(op, arg, r.val)
                  ELSE Raised(op, arg, r.exc, "")
    /\ cost' = [cost EXCEPT !.n_free_parameters = n_free_parameters]
    /\ UNCHANGED <<pdf_vars, n_calls, ext_vars>>

\* a read of the cost object
Read(op, arg, r) ==
    /\ cost # NoCost
    /\ result' = IF r.exc = "none" THEN Returned(op, arg, r.val)
                  ELSE Raised(op, arg, r.exc, "")
    /\ UNCHANGED <<pdf_vars, cost, n_calls, ext_vars>>

Dof == Read("dof", << >>, CostDof(cost))

Objective == \E params \in Vectors : Read("cost", params, CostCall(cost, params))

Chi2 == \E params \in Vectors : Read("chi2", params, CostChi2(cost, params))

ReducedChi2 ==
    Read("reduced_chi2", Vector(Len(parameters)),
         CostScore(cost, Vector(Len(parameters)), "chi2 / dof"))

PValue ==
    Read("p_value", Vector(Len(parameters)),
         CostScore(cost, Vector(Len(parameters)), "chi2.sf(chi2, dof)"))

NextCost ==
    \/ CostConstruct
    \/ CostFromName
    \/ CostUpdateFixed
    \/ Dof
    \/ Objective
    \/ Chi2
    \/ ReducedChi2
    \/ PValue

SpecCost == InitCost /\ [][NextCost]_vars

----------------------------------------------------------------------------
(* What the claims are stated with.                                        *)

UpdateOps ==
    {"update_parameters_initial", "update_parameters_limits",
     "update_parameters_fixed"}

DeclName(p) == declarations[p].key
DeclMulti(p) == heap[declarations[p].val].multi

\* the entry names one declaration is to expand to
ExpandedNames(p) ==
    IF DeclMulti(p)
    THEN [i \in 1..n_illuminations |-> MultiName(DeclName(p), i - 1)]
    ELSE <<DeclName(p)>>

RECURSIVE ExpectedNamesFrom(_)
ExpectedNamesFrom(p) ==
    IF p > Len(declarations) THEN << >>
    ELSE ExpandedNames(p) \o ExpectedNamesFrom(p + 1)

\* the entry names in declaration order, replicas in ascending index
ExpectedNames == ExpectedNamesFrom(1)

\* the name of the entry that belongs to declaration p for illumination i
EntryName(p, i) == IF DeclMulti(p) THEN MultiName(DeclName(p), i) ELSE DeclName(p)

IsEntryName(k) == DictHas(parameters, k)
IsMultiBase(k) == \E p \in 1..Len(declarations) : DeclName(p) = k /\ DeclMulti(p)

\* no two expanded names coincide, and no declared multi name is also the
\* name of an expanded entry
NamesUnambiguous ==
    /\ \A a, b \in 1..Len(ExpectedNames) :
          a # b => ExpectedNames[a] # ExpectedNames[b]
    /\ \A p \in 1..Len(declarations) :
          DeclMulti(p) =>
              \A a \in 1..Len(ExpectedNames) : ExpectedNames[a] # DeclName(p)

----------------------------------------------------------------------------
(* C1: the expanded entry map holds, in declaration order, the N entries   *)
(* name0 .. name(N-1) of each multi declaration and the one entry of each  *)
(* declaration that is not multi, so the number of entries is the sum over *)
(* the declarations of (N if multi else 1).                                *)
C1_ExpandedEntries ==
    /\ DictKeys(parameters) = ExpectedNames
    /\ Len(parameters) =
          SumSeq([p \in 1..Len(declarations) |->
                     IF DeclMulti(p) THEN n_illuminations ELSE 1])

\* C1 for declarations whose expanded names are unambiguous
C1_WhenUnambiguous == NamesUnambiguous => C1_ExpandedEntries

(* C2: lookup[i][p] is the position, in the iteration order of the         *)
(* expanded entries, of the entry that belongs to declaration p for        *)
(* illumination i, and is smaller than the number of entries.              *)
C2_LookupPositions ==
    \A i \in 0..(n_illuminations - 1) :
      \A p \in 1..Len(declarations) :
        /\ IsEntryName(EntryName(p, i))
        /\ lookup[i + 1][p] = DictPos(parameters, EntryName(p, i)) - 1
        /\ lookup[i + 1][p] < Len(parameters)

\* C2 for declarations whose expanded names are unambiguous
C2_WhenUnambiguous == NamesUnambiguous => C2_LookupPositions

(* C3: an evaluation with one value per expanded entry and an illumination *)
(* i in 0..N-1 calls the density function with, for each declaration in    *)
(* order, the element of the vector at the place of that declaration's     *)
(* entry for illumination i; also after update_* calls.                    *)
C3_CallArguments ==
    (/\ result.op = "call"
     /\ Len(result.arg.parameters) = Len(parameters)
     /\ result.arg.i_illumination \in 0..(n_illuminations - 1))
    => /\ result.exc = "none"
       /\ result.val.x = result.arg.x
       /\ result.val.args =
            [p \in 1..Len(declarations) |->
                result.arg.parameters[
                    DictPos(parameters,
                            EntryName(p, result.arg.i_illumination))]]

\* C3 for declarations whose expanded names are unambiguous
C3_WhenUnambiguous == NamesUnambiguous => C3_CallArguments

\* the attributes of the objects of the expanded entries other than
\* attribute a of the entries named in names are the same after the step
FrameExcept(names, a) ==
    \A j \in 1..Len(parameters) :
      \A b \in {"initial", "limits", "fixed", "multi"} :
        (parameters[j].key \in names /\ b = a)
        \/ heap'[parameters[j].val][b] = heap[parameters[j].val][b]

\* attribute a of the entries named in names has the value v after the step
SetOn(names, a, v) ==
    \A k \in names : heap'[DictGet(parameters, k)][a] = v

AttributeOf(op) ==
    CASE op = "update_parameters_initial" -> "initial"
      [] op = "update_parameters_limits" -> "limits"
      [] op = "update_parameters_fixed" -> "fixed"

StoredValue(op, v) == IF op = "update_parameters_limits" THEN Tuple(v.items) ELSE v

(* C4: an update_* call keyed by the base name of a multi declaration sets *)
(* the attribute on all N replicas of it, a call keyed by the name of an   *)
(* expanded entry sets it on that entry only; every other entry, and the   *)
(* other attributes of the updated entries, keep their values.             *)
C4_UpdateEffect ==
    [][(result'.op \in UpdateOps /\ Len(result'.arg) = 1) =>
        LET key == result'.arg[1].key
            a == AttributeOf(result'.op)
            v == StoredValue(result'.op, result'.arg[1].val)
            replicas == {MultiName(key, i) : i \in 0..(n_illuminations - 1)}
        IN  /\ IsMultiBase(key) =>
                  result'.exc = "none" /\ SetOn(replicas, a, v)
                  /\ FrameExcept(replicas, a)
            /\ IsEntryName(key) =>
                  result'.exc = "none" /\ SetOn({key}, a, v)
                  /\ FrameExcept({key}, a)]_vars

\* C4 for declarations whose expanded names are unambiguous
C4_WhenUnambiguous ==
    [][(NamesUnambiguous /\ result'.op \in UpdateOps /\ Len(result'.arg) = 1) =>
        LET key == result'.arg[1].key
            a == AttributeOf(result'.op)
            v == StoredValue(result'.op, result'.arg[1].val)
            replicas == {MultiName(key, i) : i \in 0..(n_illuminations - 1)}
        IN  /\ IsMultiBase(key) =>
                  result'.exc = "none" /\ SetOn(replicas, a, v)
                  /\ FrameExcept(replicas, a)
            /\ IsEntryName(key) =>
                  result'.exc = "none" /\ SetOn({key}, a, v)
                  /\ FrameExcept({key}, a)]_vars

\* the keyword arguments of the last call that name neither an expanded
\* entry nor a multi declaration
Unrecognized(kwargs) ==
    {j \in 1..Len(kwargs) :
        ~IsEntryName(kwargs[j].key) /\ ~IsMultiBase(kwargs[j].key)}

(* C5: an update_* call with a key that is neither the name of an expanded *)
(* entry nor the base name of a multi declaration fails with a ValueError  *)
(* that names the key (the first such key of the call).                    *)
C5_UnknownKeyRaises ==
    (result.op \in UpdateOps /\ Unrecognized(result.arg) # {})
    => /\ result.exc = "ValueError"
       /\ \E j \in Unrecognized(result.arg) :
             /\ result.key = result.arg[j].key
             /\ \A k \in Unrecognized(result.arg) : j <= k

\* a call keyed by the replica index N of a multi declaration has failed
C5_Witness ==
    /\ result.op \in UpdateOps
    /\ result.exc = "ValueError"
    /\ n_illuminations = 2
    /\ \E p \in 1..Len(declarations) :
          /\ DeclMulti(p)
          /\ result.key = MultiName(DeclName(p), n_illuminations)
          /\ ~IsEntryName(result.key)

----------------------------------------------------------------------------
(* Claims about the cost layer.                                            *)

CostOps == {"Cost", "from_name"}
CostNames == {CostSubclasses[j] : j \in 1..Len(CostSubclasses)}

\* the number of observations of the containers of the cost object
TotalObservations ==
    SumSeq([i \in 1..Len(cost.charges) |->
               Observations(cost.kind, cost.charges[i])])

\* the offsets of the bins of a container that hold more than five counts
BinsAboveFive(container) ==
    {b - 1 : b \in {a \in 1..Len(container.hist) : container.hist[a] > 5}}

\* every container of the cost object holds the samples it was built from
AllRaw == \A i \in 1..Len(cost.charges) : ~cost.charges[i].values.none

(* C6: whenever dof is read it is the number of observations minus the     *)
(* number of expanded entries that are free at that time, also after       *)
(* update_parameters_fixed calls made since the cost was constructed.      *)
C6_DofCurrentFree ==
    (result.op = "dof" /\ result.exc = "none")
    => result.val = TotalObservations - n_free_parameters

(* C7: constructing a cost with a list of containers whose length is not   *)
(* the number of illuminations of the PDF fails with a ValueError and      *)
(* leaves no cost object; with the right length it yields the cost object  *)
(* of the named subclass on these containers.                              *)
C7_ChargesLength ==
    [][(result'.op \in CostOps /\ result'.arg.name \in CostNames) =>
        IF Len(result'.arg.charges) # n_illuminations
        THEN result'.exc = "ValueError" /\ cost' = cost
        ELSE /\ result'.exc = "none"
             /\ cost' = result'.val
             /\ cost'.kind = result'.arg.name
             /\ cost'.charges = result'.arg.charges]_vars

\* from_name("LeastSquares", ...) with one container too many has failed
C7_Witness ==
    /\ result.op = "from_name"
    /\ result.arg.name = "LeastSquares"
    /\ Len(result.arg.charges) = n_illuminations + 1
    /\ result.exc = "ValueError"

(* C8: for LeastSquares, the bins of an illumination that contribute a     *)
(* term to the objective are exactly the bins whose count is strictly      *)
(* greater than 5, and these are exactly the bins dof counts (before it    *)
(* subtracts the free parameters the cost recorded).                       *)
C8_BinsAboveFive ==
    cost.kind = "LeastSquares" =>
      /\ (result.op = "cost" /\ result.exc = "none") =>
            \A i \in 1..Len(cost.charges) :
              /\ {result.val[i][j].bin : j \in 1..Len(result.val[i])}
                    = BinsAboveFive(cost.charges[i])
              /\ Len(result.val[i]) = Cardinality(BinsAboveFive(cost.charges[i]))
      /\ (result.op = "dof" /\ result.exc = "none") =>
            result.val + cost.n_free_parameters =
                SumSeq([i \in 1..Len(cost.charges) |->
                           Cardinality(BinsAboveFive(cost.charges[i]))])

\* the objective of a LeastSquares cost was evaluated on a container with
\* a bin of exactly five counts and a bin of more
C8_Witness ==
    /\ cost.kind = "LeastSquares"
    /\ result.op = "cost"
    /\ result.exc = "none"
    /\ \E i \in 1..Len(cost.charges) :
          /\ \E b \in 1..Len(cost.charges[i].hist) : cost.charges[i].hist[b] = 5
          /\ \E b \in 1..Len(cost.charges[i].hist) : cost.charges[i].hist[b] > 5
          /\ Len(result.val[i]) = 1

ScoreOps == {"chi2", "reduced_chi2", "p_value"}

C10_Chi2OfObjective ==
    result.op = "chi2" =>
      LET objective == CostCall(cost, result.arg)
      IN  /\ cost.kind = "BinnedNLL" =>
                /\ result.exc = objective.exc
                /\ result.exc = "none" =>
                      result.val = [by |-> 2, mul |-> objective.val]
          /\ cost.kind = "LeastSquares" =>
                /\ result.exc = objective.exc
                /\ result.exc = "none" => result.val = objective.val

\* chi2 of a BinnedNLL cost with at least one illumination has returned
C10_Witness ==
    /\ cost.kind = "BinnedNLL"
    /\ Len(cost.charges) >= 1
    /\ result.op = "chi2"
    /\ result.exc = "none"

----------------------------------------------------------------------------
(* Claims about failures of the density wrapper.                           *)

(* C11: an evaluation with an illumination index outside 0..N-1 fails      *)
(* with an IndexError and returns no density value.                        *)
C11_IlluminationOutside ==
    (/\ result.op = "call"
     /\ result.arg.i_illumination \notin 0..(n_illuminations - 1))
    => result.exc = "IndexError"

\* C11 for the indices numpy does not accept: i >= N and i < -N
C11_WhenNotWrapped ==
    (/\ result.op = "call"
     /\ \/ result.arg.i_illumination >= n_illuminations
        \/ result.arg.i_illumination < -n_illuminations)
    => result.exc = "IndexError"

(* C12: an evaluation with a vector of fewer elements than there are       *)
(* expanded entries fails with an IndexError, whichever illumination index *)
(* in 0..N-1 is requested.                                                 *)
C12_ShortVector ==
    (/\ result.op = "call"
     /\ Len(result.arg.parameters) < Len(parameters)
     /\ result.arg.i_illumination \in 0..(n_illuminations - 1))
    => result.exc = "IndexError"

\* C12 for the illuminations whose row of the lookup table holds an offset
\* the vector does not have
C12_WhenOffsetMissing ==
    (/\ result.op = "call"
     /\ result.arg.i_illumination \in 0..(n_illuminations - 1)
     /\ \E p \in 1..Len(declarations) :
           lookup[result.arg.i_illumination + 1][p] >= Len(result.arg.parameters))
    => result.exc = "IndexError"

----------------------------------------------------------------------------
(* SpecFactory: the factories PDF.from_name and Cost.from_name.            *)

\* a decimal literal of the source, num / den
Dec(num, den) == [num |-> num, den |-> den]

\* one item of the dict of declarations a subclass of PDF passes on
Decl(name, initial, lo, hi, multi) ==
    [key |-> name, val |-> PDFParameter(initial, Tuple(<<lo, hi>>), FALSE, multi)]

\* the dict "parameters" of the __init__ of each subclass of PDF
PMTSingleGaussianParameters ==
    << Decl("eped", 0, -2, 2, FALSE),
       Decl("eped_sigma", Dec(1, 10), 0, 2, FALSE),
       Decl("pe", 1, -2, 3, FALSE),
       Decl("pe_sigma", Dec(1, 10), 0, 2, FALSE),
       Decl("lambda_", Dec(7, 10), 0, 5, TRUE) >>

SiPMGentileParameters ==
    << Decl("eped", 0, -2, 2, FALSE),
       Decl("eped_sigma", Dec(1, 10), 0, 2, FALSE),
       Decl("pe", 1, 0, 3, FALSE),
       Decl("pe_sigma", Dec(1, 10), 0, 2, FALSE),
       Decl("opct", Dec(2, 10), 0, 1, FALSE),
       Decl("lambda_", Dec(7, 10), 0, 5, TRUE) >>

SiPMGeneralizedPoissonParameters ==
    << Decl("pe0", 0, -2, 2, FALSE),
       Decl("pe0_sigma", Dec(1, 10), 0, 2, FALSE),
       Decl("pe", 1, -2, 3, FALSE),
       Decl("pe_sigma", Dec(1, 10), 0, 2, FALSE),
       Decl("opct", Dec(2, 10), 0, 1, FALSE),
       Decl("lambda_", Dec(7, 10), 0, 5, TRUE) >>

SiPMModifiedPoissonParameters ==
    << Decl("eped", 0, -2, 2, FALSE),
       Decl("eped_sigma", Dec(1, 10), 0, 2, FALSE),
       Decl("pe", 1, 0, 3, FALSE),
       Decl("pe_sigma", Dec(1, 10), 0, 2, FALSE),
       Decl("opct", Dec(2, 10), 0, 1, FALSE),
       Decl("lambda_", Dec(7, 10), 0, 5, TRUE) >>

\* the keyword arguments a factory call passes on besides n_illuminations
NoKwargs == << >>
DisablePedestal == <<[key |-> "disable_pedestal", val |-> TRUE]>>

\* __init__ of the subclass class_ of PDF: the function it binds and the
\* declarations it passes to PDF.__init__, or the TypeError of a keyword
\* argument its signature does not have
SubclassInit(class_, kwargs) ==
    LET disable_pedestal == DictGetDefault(kwargs, "disable_pedestal", FALSE)
    IN  CASE class_ = "PMTSingleGaussian" ->
               [parameters |-> PMTSingleGaussianParameters,
                exc |-> "none",
                function |-> [fn |-> "pmt_single_gaussian",
                              disable_pedestal |-> disable_pedestal]]
          [] class_ = "SiPMGentile" ->
               [parameters |-> SiPMGentileParameters,
                exc |-> "none",
                function |-> [fn |-> "sipm_gentile",
                              disable_pedestal |-> disable_pedestal]]
          [] class_ = "SiPMGeneralizedPoisson" ->
               IF DictHas(kwargs, "disable_pedestal")
               THEN [parameters |-> << >>, exc |-> "TypeError",
                     function |-> [fn |-> "none"]]
               ELSE [parameters |-> SiPMGeneralizedPoissonParameters,
                     exc |-> "none",
                     function |-> [fn |-> "sipm_generalized_poisson"]]
          [] class_ = "SiPMModifiedPoisson" ->
               [parameters |-> SiPMModifiedPoissonParameters,
                exc |-> "none",
                function |-> [fn |-> "sipm_mpoisson",
                              disable_pedestal |-> disable_pedestal]]

\* PDF.from_name: the loop over cls.__subclasses__(), from the j-th on
RECURSIVE PDFFromNameLoop(_, _, _)
PDFFromNameLoop(name, kwargs, j) ==
    IF j > Len(subclasses)
    THEN [parameters |-> << >>, exc |-> "ValueError", function |-> [fn |-> "none"]]
    ELSE IF subclasses[j] = name THEN SubclassInit(subclasses[j], kwargs)
         ELSE PDFFromNameLoop(name, kwargs, j + 1)

\* the instance attributes PDF.__init__ sets for the declarations decls
NewPDF(decls, n) ==
    LET h0 == [j \in 1..Len(decls) |-> decls[j].val]
        d0 == [j \in 1..Len(decls) |-> [key |-> decls[j].key, val |-> j]]
    IN  [declarations |-> d0, prepared |-> _prepare_parameters(h0, d0, n)]

\* PDF.from_name(name, n_illuminations=n, **kwargs); the variables of the
\* PDF hold the new object when there is one
PDFFromName ==
    \E name \in {"PMTSingleGaussian", "SiPMGentile", "SiPMGeneralizedPoisson",
                  "SiPMModifiedPoisson", "NULL"} :
      \E n \in 0..MaxIllum :
        \E kwargs \in {NoKwargs, DisablePedestal} :
          LET r == PDFFromNameLoop(name, kwargs, 1)
              new == NewPDF(r.parameters, n)
              arg == [n_illuminations |-> n, name |-> name, kwargs |-> kwargs]
          IN  /\ IF r.exc = "none"
                 THEN /\ declarations' = new.declarations
                      /\ n_illuminations' = n
                      /\ heap' = new.prepared.heap
                      /\ parameters' = new.prepared.parameter_dict
                      /\ parameter_is_multi' = new.prepared.parameter_is_multi
                      /\ lookup' = new.prepared.lookup
                      /\ result' = Returned("PDF.from_name", arg,
                                            [n_illuminations |-> n, function |-> r.function,
                                             class |-> name])
                 ELSE /\ result' = Raised("PDF.from_name", arg, r.exc, "")
                      /\ UNCHANGED pdf_vars
              /\ UNCHANGED <<cost, fitter, pool, mixture, subclasses>>

\* import spefit.pdf.sipm_modified_poisson: the class statement adds the
\* class to the subclasses of PDF, once
ImportModifiedPoisson ==
    /\ subclasses' =
          IF \E j \in 1..Len(subclasses) : subclasses[j] = "SiPMModifiedPoisson"
          THEN subclasses
          ELSE Append(subclasses, "SiPMModifiedPoisson")
    /\ UNCHANGED <<pdf_vars, cost, result, n_calls, fitter, pool, mixture>>

FactoryPDFFromName ==
    /\ n_calls < MaxUpdates
    /\ n_calls' = n_calls + 1
    /\ PDFFromName

NextFactory == FactoryPDFFromName \/ ImportModifiedPoisson \/ CostFromName

SpecFactory == InitCost /\ [][NextFactory]_vars

\* the subclasses of PDF the package provides
PDFNames ==
    {"PMTSingleGaussian", "SiPMGentile", "SiPMGeneralizedPoisson",
     "SiPMModifiedPoisson"}

\* the keyword arguments the __init__ of the class accepts
Accepts(class_, kwargs) ==
    class_ = "SiPMGeneralizedPoisson" => ~DictHas(kwargs, "disable_pedestal")

(* C13: PDF.from_name and Cost.from_name return an instance of the class   *)
(* named, constructed with the remaining arguments, for the name of every  *)
(* class the package provides; for another name they fail with ValueError  *)
(* and construct nothing.                                                  *)
C13_FromName ==
    /\ result.op = "PDF.from_name" =>
          IF result.arg.name \in PDFNames
          THEN Accepts(result.arg.name, result.arg.kwargs) =>
                 /\ result.exc = "none"
                 /\ result.val.class = result.arg.name
                 /\ n_illuminations = result.arg.n_illuminations
          ELSE result.exc = "ValueError"
    /\ result.op = "from_name" =>
          IF result.arg.name \in CostNames
          THEN Len(result.arg.charges) = n_illuminations =>
                 /\ result.exc = "none"
                 /\ result.val.kind = result.arg.name
                 /\ cost = result.val
          ELSE result.exc = "ValueError"

\* C13 for the classes that are subclasses of PDF at the time of the call
C13_WhenImported ==
    [][result'.op = "PDF.from_name" =>
        IF \E j \in 1..Len(subclasses) : subclasses[j] = result'.arg.name
        THEN Accepts(result'.arg.name, result'.arg.kwargs) =>
               /\ result'.exc = "none"
               /\ result'.val.class = result'.arg.name
               /\ n_illuminations' = result'.arg.n_illuminations
        ELSE result'.exc = "ValueError" /\ UNCHANGED pdf_vars]_vars

----------------------------------------------------------------------------
(* SpecBasic: the function xlogy (spefit/common/basic.py) and the two      *)
(* constructors of ChargeContainer, applied to small inputs.               *)

\* the most samples a container is constructed from, and the most bins of a
\* prebinned histogram
MaxSamples == 2

\* float64 values: a number, NaN, minus infinity, or a term left symbolic
Num(v) == [v |-> v, kind |-> "num"]
NaN == [v |-> 0, kind |-> "nan"]
MinusInf == [v |-> 0, kind |-> "-inf"]

isnan(y) == y.kind = "nan"

\* log(y) of the compiled function: NaN for NaN and for y < 0, minus
\* infinity for 0
Log(y) ==
    CASE isnan(y) -> NaN
      [] y.kind = "num" /\ y.v < 0 -> NaN
      [] y.kind = "num" /\ y.v = 0 -> MinusInf
      [] y.kind = "num" /\ y.v = 1 -> Num(0)
      [] OTHER -> [v |-> y.v, kind |-> "log"]

\* x * l for a float x and a logarithm l
Times(x, l) ==
    CASE isnan(x) \/ isnan(l) -> NaN
      [] x = Num(0) /\ l = MinusInf -> NaN
      [] x = Num(0) \/ l = Num(0) -> Num(0)
      [] OTHER -> [v |-> x.v, kind |-> "mul", by |-> l]

\* a variant of xlogy that returns 0 for x = 0 whatever y is
xlogy_zero_first(x, y) ==
    IF x = Num(0) THEN Num(0) ELSE Times(x, Log(y))

\* xlogy
xlogy(x, y) ==
    IF x = Num(0) /\ ~isnan(y) THEN Num(0) ELSE Times(x, Log(y))

\* the floats xlogy is applied to
Floats == {NaN} \cup {Num(v) : v \in -1..2}

\* the sequences over the set S of length at most n
SeqsUpTo(S, n) == UNION {[1..len -> S] : len \in 0..n}

InitBasic ==
    /\ PDFInit(<<"m", "s">>, <<FALSE, TRUE>>, 1)
    /\ cost = NoCost
    /\ result = Returned("init", << >>, 0)
    /\ n_calls = 0
    /\ ExtInit

\* a call of a function that has no state
Apply(op, arg, val) ==
    /\ result' = Returned(op, arg, val)
    /\ UNCHANGED <<pdf_vars, cost, n_calls, ext_vars>>

XLogY == \E x \in Floats : \E y \in Floats : Apply("xlogy", <<x, y>>, xlogy(x, y))

\* the ranges of the containers: one of two units, and one whose ends are
\* equal
Ranges == {<<0, 2>>, <<1, 1>>}

\* ChargeContainer(values, n_bins, range_)
NewChargeContainer ==
    \E values \in SeqsUpTo(-1..3, MaxSamples) :
      \E n_bins \in 1..2 :
        \E range_ \in Ranges :
          Apply("ChargeContainer",
                [values |-> values, range_ |-> range_, n_bins |-> n_bins],
                ChargeContainer(values, n_bins, range_))

\* ChargeContainer.from_prebinned(x, y)
FromPrebinned ==
    \E x \in SeqsUpTo({<<1, 2>>, <<3, 2>>}, MaxSamples) :
      \E y \in SeqsUpTo({0, 6}, MaxSamples) :
        Apply("from_prebinned", [x |-> x, y |-> y], from_prebinned(x, y))

NextBasic == XLogY \/ NewChargeContainer \/ FromPrebinned

SpecBasic == InitBasic /\ [][NextBasic]_vars

(* C14 as stated: xlogy(x, y) is exactly 0 whenever x = 0, for every y     *)
(* including NaN and the y whose logarithm is undefined; for x # 0 it is   *)
(* x * log(y).                                                             *)
C14_XlogyZero ==
    result.op = "xlogy" =>
      LET x == result.arg[1]
          y == result.arg[2]
      IN  /\ x = Num(0) => result.val = Num(0)
          /\ x # Num(0) => result.val = Times(x, Log(y))

(* C14 amended: xlogy(x, y) is exactly 0 whenever x = 0 and y is not NaN,  *)
(* also for the y <= 0 whose logarithm is undefined; xlogy(0, NaN) is NaN; *)
(* for x # 0 it is x * log(y).                                             *)
C14_XlogyZeroUnlessNaN ==
    result.op = "xlogy" =>
      LET x == result.arg[1]
          y == result.arg[2]
      IN  /\ (x = Num(0) /\ ~isnan(y)) => result.val = Num(0)
          /\ (x = Num(0) /\ isnan(y)) => isnan(result.val)
          /\ x # Num(0) => result.val = Times(x, Log(y))

\* xlogy(0, -1) was evaluated: the logarithm of y is undefined
C14_Witness ==
    /\ result.op = "xlogy"
    /\ result.arg = <<Num(0), Num(-1)>>
    /\ result.val = Num(0)

(* C15: every ChargeContainer, from raw samples or from_prebinned(x, y),   *)
(* has bin centres (between) and counts (hist) of equal length, and holds  *)
(* a sample array (values) exactly when it was built from raw samples.     *)
C15_ContainerShape ==
    result.op \in {"ChargeContainer", "from_prebinned"} =>
      /\ Len(result.val.between) = Len(result.val.hist)
      /\ result.val.values.none <=> result.op = "from_prebinned"

\* C15 for from_prebinned(x, y) with x and y of equal length
C15_WhenSameLength ==
    (\/ result.op = "ChargeContainer"
     \/ result.op = "from_prebinned" /\ Len(result.arg.x) = Len(result.arg.y))
    => /\ Len(result.val.between) = Len(result.val.hist)
       /\ result.val.values.none <=> result.op = "from_prebinned"

----------------------------------------------------------------------------
(* SpecFitter: a CameraFitter on a PDF with a shared and a multi           *)
(* parameter, and calls of process and multiprocess on it                  *)
(* (spefit/fitter.py). A managed dict is a function from its keys.         *)

\* the most pixels a camera has, the most worker processes of a pool, and
\* the most calls of process and multiprocess on one fitter
MaxPixels == 2
MaxProcesses == 2
MaxRuns == 2

\* manager.dict() and d[k] = v on it
ManagerDict == [k \in {} |-> 0]
SetItem_replacing(d, k, v) == [j \in {k} |-> v]
SetItem(d, k, v) == [j \in DOMAIN d \cup {k} |-> IF j = k THEN v ELSE d[j]]

\* CameraFitter.__init__
CameraFitter(cost_name, n_bins, range_) ==
    [range_ |-> range_, n_bins |-> n_bins, cost_name |-> cost_name,
     pixel_arrays |-> ManagerDict, pixel_errors |-> ManagerDict,
     pixel_scores |-> ManagerDict, pixel_values |-> ManagerDict]

\* a[:, pixel] of an array of shape (n_events, n_pixels), given by its rows
Column_first(a, pixel) == [e \in 1..Len(a) |-> a[e][1]]
Column(a, pixel) == [e \in 1..Len(a) |-> a[e][pixel + 1]]

\* a.shape[1]
NPixels(a) == Len(a[1])

\* minimize_with_iminuit: the minimizer is a function of the cost object;
\* it returns the dicts of the best values and of their errors, one entry
\* per entry of the PDF's parameters
minimize_with_iminuit(c) ==
    [values |-> [j \in 1..Len(parameters) |->
                    [key |-> parameters[j].key,
                     val |-> [fn |-> "Minuit.values", obj |-> c]]],
     errors |-> [j \in 1..Len(parameters) |->
                    [key |-> parameters[j].key,
                     val |-> [fn |-> "Minuit.errors", obj |-> c]]]]

\* CameraFitter._update_initial: the placeholder changes nothing
_update_initial(self, charges) == self

\* a variant of the scores without the except clause: a ValueError of chi2,
\* reduced_chi2 or p_value ends _apply_pixel
Scores_raising(c, values_array) ==
    LET chi2 == CostChi2(c, values_array)
        reduced_chi2 == CostScore(c, values_array, "chi2 / dof")
        p_value == CostScore(c, values_array, "chi2.sf(chi2, dof)")
        raised == IF chi2.exc # "none" THEN chi2.exc
                  ELSE IF reduced_chi2.exc # "none" THEN reduced_chi2.exc
                  ELSE p_value.exc
    IN  [val |-> <<[key |-> "chi2", val |-> chi2.val],
                   [key |-> "reduced_chi2", val |-> reduced_chi2.val],
                   [key |-> "p_value", val |-> p_value.val]>>,
         exc |-> raised]

\* the scores of a minimum: chi2, reduced_chi2 and p_value, or three NaN
\* when one of them raises a ValueError
Scores(c, values_array) ==
    LET chi2 == CostChi2(c, values_array)
        reduced_chi2 == CostScore(c, values_array, "chi2 / dof")
        p_value == CostScore(c, values_array, "chi2.sf(chi2, dof)")
        raised == IF chi2.exc # "none" THEN chi2.exc
                  ELSE IF reduced_chi2.exc # "none" THEN reduced_chi2.exc
                  ELSE p_value.exc
    IN  IF raised = "ValueError"
        THEN [val |-> <<[key |-> "chi2", val |-> NaN],
                        [key |-> "reduced_chi2", val |-> NaN],
                        [key |-> "p_value", val |-> NaN]>>,
              exc |-> "none"]
        ELSE [val |-> <<[key |-> "chi2", val |-> chi2.val],
                        [key |-> "reduced_chi2", val |-> reduced_chi2.val],
                        [key |-> "p_value", val |-> p_value.val]>>,
              exc |-> raised]

\* the dict of arrays kept for plotting illumination i
PlotArrays(self, container, values_array, i) ==
    LET fit_x == [range_ |-> self.range_, n_bins |-> self.n_bins * 10,
                  fn |-> "linspace"]
    IN  <<[key |-> "charge_hist_x", val |-> container.between],
          [key |-> "charge_hist_y", val |-> container.hist],
          [key |-> "charge_hist_edges", val |-> container.edges.data],
          [key |-> "fit_x", val |-> fit_x],
          [key |-> "fit_y", val |-> PDFCall(Array(fit_x), values_array, i).val]>>

\* the value of F at v, v being evaluated once
Then(v, F(_)) == CHOOSE y \in {F(x) : x \in {v}} : TRUE

\* what _apply_pixel holds when an exception ended it
NoResult(exc) ==
    [exc |-> exc, values |-> << >>, arrays |-> << >>, errors |-> << >>,
     scores |-> << >>]

\* CameraFitter._apply_pixel from the minimization on, cost_ being the
\* outcome of Cost.from_name
Minimized(self, charges, cost_) ==
    IF cost_.exc # "none" THEN NoResult(cost_.exc)
    ELSE
    Then(minimize_with_iminuit(cost_.obj), LAMBDA fit :
    Then([j \in 1..Len(fit.values) |-> fit.values[j].val], LAMBDA values_array :
    Then(Scores(cost_.obj, values_array), LAMBDA scores :
        IF scores.exc # "none" THEN NoResult(scores.exc)
        ELSE [exc |-> "none",
              values |-> fit.values,
              arrays |-> [i \in 1..n_illuminations |->
                             PlotArrays(self, charges[i], values_array, i - 1)],
              errors |-> fit.errors,
              scores |-> scores.val])))

\* CameraFitter._apply_pixel up to the stores: what it is about to store
\* for the pixel, or the exception that ends it
_apply_pixel(self, charge_arrays, pixel) ==
    IF \E i \in 1..n_illuminations :
          \/ i > Len(charge_arrays)
          \/ pixel >= NPixels(charge_arrays[i])
    THEN NoResult("IndexError")
    ELSE
    Then([i \in 1..n_illuminations |->
             ChargeContainer(Column(charge_arrays[i], pixel),
                             self.n_bins, self.range_)], LAMBDA charges :
    Then(_update_initial(self, charges), LAMBDA self1 :
    Then(FromNameLoop(self1.cost_name, charges, 1), LAMBDA cost_ :
        Minimized(self1, charges, cost_))))

\* the four stores that end _apply_pixel, the first k of them
Stores(self, pixel, r, k) ==
    [self EXCEPT
       !.pixel_values = IF k >= 1 THEN SetItem(@, pixel, r.values) ELSE @,
       !.pixel_errors = IF k >= 2 THEN SetItem(@, pixel, r.errors) ELSE @,
       !.pixel_scores = IF k >= 3 THEN SetItem(@, pixel, r.scores) ELSE @,
       !.pixel_arrays = IF k >= 4 THEN SetItem(@, pixel, r.arrays) ELSE @]

\* CameraFitter.process: the loop over the pixels from pixel on; an
\* exception ends it and keeps what was stored
RECURSIVE ProcessLoop(_, _, _, _)
ProcessLoop(self, charge_arrays, pixel, n_pixels) ==
    IF pixel >= n_pixels THEN [exc |-> "none", self |-> self]
    ELSE Then(_apply_pixel(self, charge_arrays, pixel), LAMBDA r :
            IF r.exc # "none" THEN [exc |-> r.exc, self |-> self]
            ELSE Then(Stores(self, pixel, r, 4), LAMBDA stored :
                    ProcessLoop(stored, charge_arrays, pixel + 1, n_pixels)))

\* charge arrays of a camera of n_pixels pixels, one array of MaxSamples
\* events per illumination of the list: the first charge of pixel p under
\* illumination i is 0 or 1 by the parity of v + p + i, the others are 1
ChargeArrays(len, n_pixels, v) ==
    [i \in 1..len |->
        [e \in 1..MaxSamples |->
            [p \in 1..n_pixels |-> IF e = 1 THEN (v + p + i) % 2 ELSE 1]]]

\* the lists of arrays the fitter is run on: one array per illumination for
\* the cameras of up to MaxPixels pixels, the same for a camera of one pixel
\* that has the charges of the second pixel of the others, and a list that
\* is one array short
CameraData ==
    {ChargeArrays(n_illuminations, n_pixels, 0) : n_pixels \in 1..MaxPixels}
    \cup {ChargeArrays(n_illuminations, 1, 1)}
    \cup {ChargeArrays(n_illuminations - 1, 1, 0)}

\* the fitters that are run: an unbinned fit of one illumination, a binned
\* fit of MaxIllum illuminations
FitterConfigurations ==
    {[n_illuminations |-> 1, cost_name |-> "UnbinnedNLL"],
     [n_illuminations |-> MaxIllum, cost_name |-> "BinnedNLL"]}

InitFitter ==
    /\ \E c \in FitterConfigurations :
          /\ PDFInit(<<"m", "s">>, <<FALSE, TRUE>>, c.n_illuminations)
          /\ fitter = CameraFitter(c.cost_name, 2, <<0, 2>>)
    /\ cost = NoCost
    /\ result = Returned("init", << >>, 0)
    /\ n_calls = 0
    /\ subclasses = PackageSubclasses
    /\ pool = NoPool
    /\ mixture = NoMixture

\* fitter.process(charge_arrays)
Process ==
    /\ pool.mode = "idle"
    /\ n_calls < MaxRuns
    /\ \E charge_arrays \in CameraData :
          IF Len(charge_arrays) = 0
          THEN /\ result' = Raised("process", charge_arrays, "IndexError", "")
               /\ UNCHANGED fitter
          ELSE \E r \in {ProcessLoop(fitter, charge_arrays, 0,
                                     NPixels(charge_arrays[1]))} :
                 /\ fitter' = r.self
                 /\ result' = IF r.exc = "none"
                               THEN Returned("process", charge_arrays, 0)
                               ELSE Raised("process", charge_arrays, r.exc, "")
    /\ n_calls' = n_calls + 1
    /\ UNCHANGED <<pdf_vars, cost, subclasses, pool, mixture>>

\* fitter.multiprocess(charge_arrays, n_processes) up to the start of the
\* pool: n_processes workers, none of them running a pixel, and the pixels
\* 0..n_pixels-1 to hand out (a map over at most 4 * n_processes tasks
\* hands them out one by one); the pools have one worker or MaxProcesses
Multiprocess ==
    /\ pool.mode = "idle"
    /\ n_calls < MaxRuns
    /\ \E charge_arrays \in CameraData :
        \E n_processes \in {1, MaxProcesses} :
          IF Len(charge_arrays) = 0
          THEN /\ result' = Raised("multiprocess", charge_arrays, "IndexError", "")
               /\ UNCHANGED pool
          ELSE /\ pool' = [mode |-> "multiprocess",
                           charge_arrays |-> charge_arrays,
                           n_pixels |-> NPixels(charge_arrays[1]),
                           n_processes |-> n_processes,
                           next |-> 0,
                           running |-> {}]
               /\ UNCHANGED result
    /\ n_calls' = n_calls + 1
    /\ UNCHANGED <<pdf_vars, cost, subclasses, fitter, mixture>>

\* a worker that runs no pixel takes the next one and runs _apply_pixel up
\* to the stores, which leaves what to store in its local variables; an
\* exception there ends the map, and the pool with it
WorkerApply ==
    /\ pool.mode = "multiprocess"
    /\ pool.next < pool.n_pixels
    /\ Cardinality(pool.running) < pool.n_processes
    /\ \E r \in {_apply_pixel(fitter, pool.charge_arrays, pool.next)} :
          IF r.exc # "none"
          THEN /\ pool' = NoPool
               /\ result' = Raised("multiprocess", pool.charge_arrays, r.exc, "")
          ELSE /\ pool' = [pool EXCEPT
                             !.next = @ + 1,
                             !.running = @ \cup {[local |-> r,
                                                  pixel |-> pool.next,
                                                  stored |-> 0]}]
               /\ UNCHANGED result
    /\ UNCHANGED <<pdf_vars, cost, n_calls, subclasses, fitter, mixture>>

\* a worker stores the next of the four results of its pixel, and has done
\* with the pixel after the fourth
WorkerStore ==
    /\ pool.mode = "multiprocess"
    /\ \E worker \in pool.running :
        LET k == worker.stored
            pixel == worker.pixel
            r == worker.local
        IN  /\ fitter' =
                 [fitter EXCEPT
                    !.pixel_values = IF k = 0 THEN SetItem(@, pixel, r.values) ELSE @,
                    !.pixel_errors = IF k = 1 THEN SetItem(@, pixel, r.errors) ELSE @,
                    !.pixel_scores = IF k = 2 THEN SetItem(@, pixel, r.scores) ELSE @,
                    !.pixel_arrays = IF k = 3 THEN SetItem(@, pixel, r.arrays) ELSE @]
            /\ pool' = [pool EXCEPT
                          !.running =
                             (@ \ {worker}) \cup
                             IF k = 3 THEN {}
                             ELSE {[worker EXCEPT !.stored = k + 1]}]
    /\ UNCHANGED <<pdf_vars, cost, result, n_calls, subclasses, mixture>>

\* every pixel was handed out and no worker runs one: the map returns, the
\* pool ends and multiprocess returns
MultiprocessReturn ==
    /\ pool.mode = "multiprocess"
    /\ pool.next = pool.n_pixels
    /\ pool.running = {}
    /\ pool' = NoPool
    /\ result' = Returned("multiprocess", pool.charge_arrays, 0)
    /\ UNCHANGED <<pdf_vars, cost, n_calls, subclasses, fitter, mixture>>

NextFitter ==
    \/ Process
    \/ Multiprocess
    \/ WorkerApply
    \/ WorkerStore
    \/ MultiprocessReturn

SpecFitter == InitFitter /\ [][NextFitter]_vars

\* a call of process or multiprocess has returned, and no other is running
RunReturned ==
    /\ pool.mode = "idle"
    /\ result.op \in {"process", "multiprocess"}
    /\ result.exc = "none"

\* the four result dicts of the fitter
ResultDicts ==
    <<fitter.pixel_values, fitter.pixel_errors, fitter.pixel_scores,
      fitter.pixel_arrays>>

(* C16 as stated: after process or multiprocess over n pixels returns,     *)
(* under any interleaving of the workers, each of pixel_values,            *)
(* pixel_errors, pixel_scores and pixel_arrays has exactly one entry for   *)
(* every pixel 0..n-1 and no other key.                                    *)
C16_OneEntryPerPixel ==
    RunReturned =>
      \A d \in 1..4 :
        DOMAIN ResultDicts[d] = 0..(NPixels(result.arg[1]) - 1)

(* C16 amended: after process or multiprocess over n pixels returns, under *)
(* any interleaving of the workers, each of the four dicts has an entry    *)
(* for every pixel 0..n-1, which is the entry this call stored for that    *)
(* pixel; it has no other key when the call was the first on the fitter    *)
(* (entries of earlier calls are kept).                                    *)
C16_OneEntryPerPixelOfNewFitter ==
    RunReturned =>
      LET n_pixels == NPixels(result.arg[1])
      IN  /\ \A d \in 1..4 :
                /\ 0..(n_pixels - 1) \subseteq DOMAIN ResultDicts[d]
                /\ n_calls = 1 => DOMAIN ResultDicts[d] = 0..(n_pixels - 1)
          /\ \A pixel \in 0..(n_pixels - 1) :
                \E r \in {_apply_pixel(fitter, result.arg, pixel)} :
                   /\ fitter.pixel_values[pixel] = r.values
                   /\ fitter.pixel_errors[pixel] = r.errors
                   /\ fitter.pixel_scores[pixel] = r.scores
                   /\ fitter.pixel_arrays[pixel] = r.arrays

\* multiprocess over the largest camera returned, as the first call
C16_Witness ==
    /\ RunReturned
    /\ result.op = "multiprocess"
    /\ NPixels(result.arg[1]) = MaxPixels
    /\ n_calls = 1

\* pixel p has the same charges in the arrays A as pixel q has in the
\* arrays B, in every illumination of the PDF
SameCharges(A, p, B, q) ==
    /\ Len(A) >= n_illuminations
    /\ Len(B) >= n_illuminations
    /\ \A i \in 1..n_illuminations :
          /\ p < NPixels(A[i])
          /\ q < NPixels(B[i])
          /\ Len(A[i]) = Len(B[i])
          /\ \A e \in 1..Len(A[i]) : A[i][e][p + 1] = B[i][e][q + 1]

\* the keys whose entry in the dict d differs from the one in before
StoredIn(before, d) ==
    {k \in DOMAIN d : k \notin DOMAIN before \/ d[k] # before[k]}

(* C17: the result recorded for a pixel depends only on that pixel's       *)
(* charges and the fitter's configuration: whatever a step of a call of    *)
(* process or of a worker of multiprocess stores for pixel p is what a new *)
(* fitter of the same configuration computes for any pixel q of any arrays *)
(* in which q has the charges of p, whichever pixels were processed        *)
(* before and whichever workers run beside it.                             *)
C17_PixelResultOfItsCharges ==
    [][LET A == IF pool.mode = "multiprocess" THEN pool.charge_arrays
                ELSE result'.arg
           new == CameraFitter(fitter.cost_name, fitter.n_bins, fitter.range_)
       IN  \A p \in 0..(MaxPixels - 1) :
             (\E d \in 1..4 : p \in StoredIn(ResultDicts[d], ResultDicts'[d]))
             => \A B \in CameraData :
                  \A q \in 0..(MaxPixels - 1) :
                    SameCharges(A, p, B, q)
                    => \E r \in {_apply_pixel(new, B, q)} :
                         /\ p \in StoredIn(fitter.pixel_values, fitter'.pixel_values)
                              => fitter'.pixel_values[p] = r.values
                         /\ p \in StoredIn(fitter.pixel_errors, fitter'.pixel_errors)
                              => fitter'.pixel_errors[p] = r.errors
                         /\ p \in StoredIn(fitter.pixel_scores, fitter'.pixel_scores)
                              => fitter'.pixel_scores[p] = r.scores
                         /\ p \in StoredIn(fitter.pixel_arrays, fitter'.pixel_arrays)
                              => fitter'.pixel_arrays[p] = r.arrays]_vars

\* two workers run different pixels at once, one has stored its values and
\* the other has stored nothing yet, in a second call on the fitter
C17_Witness ==
    /\ pool.mode = "multiprocess"
    /\ \E v, w \in pool.running :
          /\ v.pixel # w.pixel
          /\ v.stored \in 1..3
          /\ w.stored = 0
    /\ n_calls = 2

----------------------------------------------------------------------------
(* SpecMixture: evaluations of the four mixture densities                  *)
(* (spefit/pdf/pmt_single_gaussian.py, sipm_modified_poisson.py,           *)
(* sipm_gentile.py, sipm_generalized_poisson.py), one iteration of the     *)
(* loop over the components at a time. A weight is a fixed-point number in *)
(* units of 1e-8. Every component is a normal_pdf, whose integral over x   *)
(* is 1, so the integral of a spectrum is the sum of the weights of the    *)
(* components added to it.                                                 *)

\* the weight 1, and the product of two weights
One == 10^8
MulFix(a, b) ==
    (a \div 10^4) * (b \div 10^4)
    + ((a \div 10^4) * (b % 10^4) + (a % 10^4) * (b \div 10^4)) \div 10^4
    + ((a % 10^4) * (b % 10^4)) \div One

\* the absolute floor of the weights, 1e-4, and the end of the range of the
\* loops over the components
Floor == One \div 10^4
Cap == 100

\* the parameters the densities are evaluated at: the declared initial ones
\* (lambda_ = 0.7, opct = 0.2), a bright illumination (lambda_ = 12,
\* opct = 0.2), a strong crosstalk (lambda_ = 5, opct = 0.9) and a flood of
\* light (lambda_ = 1300, opct = 0.2), at which exp underflows and every
\* weight of the range is 0.0
ParameterSets == {"initial", "bright", "crosstalk", "flood"}

\* opct as <<numerator, denominator>>
Opct(set) == IF set = "crosstalk" THEN <<9, 10>> ELSE <<1, 5>>

\* poisson(k, lambda_) for k = 0, 1, ..., up to the last that is not below
\* half a unit
PoissonTable(set) ==
    CASE set = "flood" -> << >>
      [] set = "initial" ->
         <<49658530, 34760971, 12166340, 2838813, 496792, 69551, 8114, 811,
           71, 6>>
      [] set = "bright" ->
         <<614, 7373, 44238, 176953, 530860, 1274064, 2548128, 4368219,
           6552328, 8736438, 10483726, 11436792, 11436792, 10557038,
           9048890, 7239112, 5429334, 3832471, 2554981, 1613672, 968203,
           553259, 301778, 157449, 78725, 37788, 17441, 7751, 3322, 1375,
           550, 213, 80, 29, 10, 4, 1>>
      [] set = "crosstalk" ->
         <<673795, 3368973, 8422434, 14037390, 17546737, 17546737, 14622281,
           10444486, 6527804, 3626558, 1813279, 824218, 343424, 132086,
           47174, 15725, 4914, 1445, 401, 106, 26, 6, 1>>

\* modified_poisson(k, lambda_, opct) and generalized_poisson(k, lambda_,
\* opct), which are the same formula, for k = 0, 1, ..., up to the last
\* that is not below half a unit
ModifiedPoissonTable(set) ==
    CASE set = "flood" -> << >>
      [] set = "initial" ->
         <<49658530, 28459876, 12815537, 5373419, 2196438, 890045, 360059,
           145870, 59265, 24161, 9886, 4059, 1673, 692, 287, 119, 50, 21, 9,
           4, 2, 1>>
      [] set = "bright" ->
         <<614, 6037, 30642, 107068, 289488, 645573, 1236036, 2088495,
           3177080, 4417607, 5681301, 6822245, 7708878, 8249655, 8406532,
           8194869, 7672543, 6923238, 6038992, 5105772, 4193963, 3354031,
           2616411, 1994235, 1487448, 1087185, 779665, 549231, 380452,
           259394, 174230, 115383, 75395, 48644, 31009, 19542, 12182, 7516,
           4592, 2779, 1667, 991, 584, 342, 199, 115, 66, 37, 21, 12, 7, 4,
           2, 1, 1>>
      [] set = "crosstalk" ->
         <<673795, 1369722, 1893418, 2237344, 2439617, 2540303, 2571234,
           2555539, 2509433, 2444104, 2367209, 2283964, 2197901, 2111395,
           2026019, 1942794, 1862359, 1785090, 1711180, 1640697, 1573625,
           1509892, 1449391, 1391990, 1337546, 1285910, 1236933, 1190466,
           1146366, 1104495, 1064721, 1026920, 990974, 956773, 924212,
           893195, 863629, 835431, 808519, 782821, 758266, 734790, 712332,
           690836, 670248, 650520, 631605, 613460, 596044, 579319, 563250,
           547804, 532948, 518655, 504896, 491644, 478877, 466570, 454703,
           443254, 432205, 421537, 411233, 401276, 391653, 382348, 373347,
           364637, 356207, 348044, 340138, 332478, 325053, 317855, 310875,
           304103, 297532, 291155, 284963, 278949, 273108, 267432, 261916,
           256553, 251339, 246267, 241333, 236532, 231859, 227310, 222880,
           218566, 214363, 210269, 206278, 202389, 198597, 194899, 191293,
           187775>>

Entry(table, k) == IF k < Len(table) THEN table[k + 1] ELSE 0

poisson(k, set) == Entry(PoissonTable(set), k)
modified_poisson(k, set) == Entry(ModifiedPoissonTable(set), k)
generalized_poisson(k, set) == Entry(ModifiedPoissonTable(set), k)

\* binom(n, k), which is exact for the small n of the model
RECURSIVE binom(_, _)
binom(n, k) == IF k = 0 THEN 1 ELSE (binom(n, k - 1) * (n - k + 1)) \div k

\* pow(num / den, n)
RECURSIVE Pow(_, _, _)
Pow(num, den, n) == IF n = 0 THEN One ELSE (Pow(num, den, n - 1) * num) \div den

\* pow(1 - opct, j) * pow(opct, k - j) * binom(k - 1, j - 1)
Combinations(k, j, set) ==
    MulFix(Pow(Opct(set)[2] - Opct(set)[1], Opct(set)[2], j),
           Pow(Opct(set)[1], Opct(set)[2], k - j)) * binom(k - 1, j - 1)

\* the inner loop of sipm_gentile from j on, pk being the sum so far: the
\* initial numbers of fired cells whose probability is below 1e-4 are
\* skipped
RECURSIVE GentileLoop(_, _, _, _)
GentileLoop(k, set, j, pk) ==
    IF j > k THEN pk
    ELSE IF poisson(j, set) < Floor THEN GentileLoop(k, set, j + 1, pk)
         ELSE GentileLoop(k, set, j + 1,
                          pk + MulFix(poisson(j, set), Combinations(k, j, set)))

\* the four density functions, and the first k of the loop of each
Variants ==
    {"pmt_single_gaussian", "sipm_mpoisson", "sipm_gentile",
     "sipm_generalized_poisson"}
RangeStart(variant) == IF variant = "sipm_generalized_poisson" THEN 0 ELSE 1

\* the weight the loop of the variant computes for component k
Weight(variant, set, k) ==
    CASE variant = "pmt_single_gaussian" -> poisson(k, set)
      [] variant = "sipm_mpoisson" -> modified_poisson(k, set)
      [] variant = "sipm_gentile" -> GentileLoop(k, set, 1, 0)
      [] variant = "sipm_generalized_poisson" -> generalized_poisson(k, set)

\* p_ped: sipm_generalized_poisson has no pedestal term besides its loop
PedestalWeight_dropped(variant, set, disable_pedestal) == 0
PedestalWeight_kept(variant, set, disable_pedestal) ==
    IF variant = "sipm_generalized_poisson" THEN 0 ELSE poisson(0, set)
PedestalWeight(variant, set, disable_pedestal) ==
    IF variant = "sipm_generalized_poisson" \/ disable_pedestal THEN 0
    ELSE poisson(0, set)

\* the test that ends the loop at a component of weight p: p is not above
\* the largest weight so far, and is below the floor
Truncates_below_floor(p, p_max) == p < Floor
Truncates(p, p_max) == ~(p > p_max) /\ p < Floor

InitMixture ==
    /\ PDFInit(<<"m", "s">>, <<FALSE, TRUE>>, 1)
    /\ cost = NoCost
    /\ result = Returned("init", << >>, 0)
    /\ n_calls = 0
    /\ ExtInit

\* the component k of weight p: p * normal_pdf(x, eped + k * pe,
\* sqrt(k * pe_sigma ** 2 + eped_sigma ** 2)), with pe0 and pe0_sigma for
\* eped and eped_sigma in sipm_generalized_poisson
Peak(variant, k, p) ==
    [k |-> k,
     p |-> p,
     mean |-> [k |-> k,
               fn |-> "ped + k * pe",
               ped |-> IF variant = "sipm_generalized_poisson"
                       THEN "pe0" ELSE "eped"],
     sigma |-> [k |-> k,
                fn |-> "sqrt(k * pe_sigma ** 2 + ped_sigma ** 2)",
                ped_sigma |-> IF variant = "sipm_generalized_poisson"
                              THEN "pe0_sigma" ELSE "eped_sigma"]]

\* the function up to its loop
Called(variant, set, disable_pedestal) ==
    [k |-> RangeStart(variant),
     variant |-> variant,
     disable_pedestal |-> disable_pedestal,
     added |-> << >>,
     components |-> << >>,
     p_max |-> 0,
     pc |-> "loop",
     set |-> set,
     spectrum |-> PedestalWeight(variant, set, disable_pedestal),
     visited |-> << >>]

\* one iteration of the loop: the weight of component k, then the break, or
\* the component is added to the spectrum
Iteration(m) ==
    Then(Weight(m.variant, m.set, m.k),
         LAMBDA p :
            IF Truncates(p, m.p_max)
            THEN [m EXCEPT !.pc = "break",
                           !.visited = Append(@, m.k)]
            ELSE [m EXCEPT !.p_max = IF p > @ THEN p ELSE @,
                           !.spectrum = @ + p,
                           !.visited = Append(@, m.k),
                           !.added = Append(@, m.k),
                           !.components = Append(@, Peak(m.variant, m.k, p)),
                           !.k = @ + 1])

\* a call of a density function, up to the loop: sipm_generalized_poisson
\* has no parameter disable_pedestal, and sipm_gentile is not run on the
\* strong crosstalk
EvaluateDensity ==
    /\ \E variant \in Variants :
        \E set \in ParameterSets :
         \E disable_pedestal \in BOOLEAN :
           /\ variant = "sipm_generalized_poisson" => ~disable_pedestal
           /\ variant = "sipm_gentile" => set # "crosstalk"
           /\ mixture' = Called(variant, set, disable_pedestal)
    /\ UNCHANGED <<pdf_vars, cost, result, n_calls, subclasses, fitter, pool>>

\* one iteration of the loop over the components
Component ==
    /\ mixture.variant # "none"
    /\ mixture.pc = "loop"
    /\ mixture.k < Cap
    /\ mixture' = Iteration(mixture)
    /\ UNCHANGED <<pdf_vars, cost, result, n_calls, subclasses, fitter, pool>>

\* the range of the loop is exhausted
Exhausted ==
    /\ mixture.variant # "none"
    /\ mixture.pc = "loop"
    /\ mixture.k = Cap
    /\ mixture' = [mixture EXCEPT !.pc = "exhausted"]
    /\ UNCHANGED <<pdf_vars, cost, result, n_calls, subclasses, fitter, pool>>

NextMixture == EvaluateDensity \/ Component \/ Exhausted

SpecMixture == InitMixture /\ [][NextMixture]_vars

----------------------------------------------------------------------------
(* The truncation of the loop over the components                          *)

Evaluating == mixture.variant # "none"
Visiting == Evaluating /\ mixture.visited # << >>
LastVisited == mixture.visited[Len(mixture.visited)]
WeightOf(k) == Weight(mixture.variant, mixture.set, k)

\* the weights of the components the loop visited before k
Earlier(k) == {WeightOf(j) : j \in RangeStart(mixture.variant)..(k - 1)}

\* the components are visited in increasing order, every visited component
\* but the one the loop stopped at is added, and the loop ends within the
\* range
VisitsInOrder ==
    /\ mixture.visited =
         [i \in 1..Len(mixture.visited) |-> RangeStart(mixture.variant) + i - 1]
    /\ mixture.added =
         IF mixture.pc = "break"
         THEN SubSeq(mixture.visited, 1, Len(mixture.visited) - 1)
         ELSE mixture.visited
    /\ mixture.pc = "break" => mixture.visited # << >>
    /\ mixture.pc = "exhausted" =>
          Len(mixture.visited) = Cap - RangeStart(mixture.variant)
    /\ Len(mixture.visited) <= Cap

\* C19 (as stated): the loop visits k in increasing order, adds every
\* component but the one it stops at, stops at the first k whose weight is
\* below a weight seen earlier in the loop and below 1e-4, and ends after at
\* most 100 iterations.
C19_StopsBelowRunningMaximum ==
    Visiting =>
      /\ VisitsInOrder
      /\ mixture.pc = "break" <=>
           /\ WeightOf(LastVisited) < Floor
           /\ \E w \in Earlier(LastVisited) : WeightOf(LastVisited) < w

\* C19 (amended): the loop visits k in increasing order, adds every
\* component but the one it stops at, stops at the first k whose computed
\* weight is not above the running maximum of the weights computed earlier
\* in the loop, which starts at 0, and below 1e-4, and ends after at most
\* 100 iterations.
C19_StopsNotAboveRunningMaximum ==
    Visiting =>
      /\ VisitsInOrder
      /\ mixture.pc = "break" <=>
           /\ WeightOf(LastVisited) < Floor
           /\ \E w \in Earlier(LastVisited) \cup {0} :
                 WeightOf(LastVisited) <= w

\* the loop stopped past the mode of the weights, at a component below the
\* floor, after a component whose weight equalled the running maximum
C19_Witness ==
    /\ Visiting
    /\ mixture.pc = "break"
    /\ Len(mixture.added) > 2
    /\ \E i \in 2..Len(mixture.added) :
          /\ WeightOf(mixture.added[i]) = WeightOf(mixture.added[i - 1])
          /\ \A w \in Earlier(mixture.added[i]) : w <= WeightOf(mixture.added[i])

----------------------------------------------------------------------------
(* The weights of the formulas and the truncation                          *)

\* the sum over j = 1..k of poisson(j, lambda_) * pow(1 - opct, j)
\* * pow(opct, k - j) * binom(k - 1, j - 1), every term counted
RECURSIVE GentileSum(_, _, _)
GentileSum(k, set, j) ==
    IF j > k THEN 0
    ELSE MulFix(poisson(j, set), Combinations(k, j, set))
         + GentileSum(k, set, j + 1)

\* the weight of component k by the formula of the variant, the pedestal
\* being component 0
FormulaWeight(variant, set, k) ==
    IF k = 0 /\ variant # "sipm_generalized_poisson" THEN poisson(0, set)
    ELSE IF variant = "sipm_gentile" THEN GentileSum(k, set, 1)
    ELSE Weight(variant, set, k)

\* the weights by the formula of the components before k
FormulaWeights(k) ==
    {FormulaWeight(mixture.variant, mixture.set, j) : j \in 0..(k - 1)}

\* C20: the loop never stops at a component whose weight by the formula of
\* the variant is larger than the weights of all earlier components (and
\* than 0, when there is none), even when that weight is below 1e-4.
C20_NeverStopsWhileRising ==
    Visiting /\ mixture.pc = "break" =>
      \E w \in FormulaWeights(LastVisited) \cup {0} :
         w >= FormulaWeight(mixture.variant, mixture.set, LastVisited)

\* the same for the variants that compare the weight of the formula
C20_WhenUnfiltered ==
    mixture.variant # "sipm_gentile" => C20_NeverStopsWhileRising

----------------------------------------------------------------------------
(* The integral of the returned spectrum                                   *)

\* the loop has ended and the spectrum is returned
SpectrumReturned == Evaluating /\ mixture.pc \in {"break", "exhausted"}

\* 1 with the pedestal, 1 - exp(-lambda_) without it
Target ==
    IF mixture.disable_pedestal THEN One - poisson(0, mixture.set) ELSE One

\* numpy.testing.assert_allclose(actual, desired, rtol=1e-3)
AllClose(actual, desired) ==
    /\ actual - desired <= desired \div 1000
    /\ desired - actual <= desired \div 1000

----------------------------------------------------------------------------
(* The weights of the components of sipm_gentile                           *)

\* the weights by the formula of the components added so far
AddedFormulaWeights ==
    [i \in 1..Len(mixture.added) |->
       FormulaWeight(mixture.variant, mixture.set, mixture.added[i])]

\* C21: in sipm_gentile the weight of each component k >= 1 added to the
\* spectrum is the sum over all j = 1..k of poisson(j, lambda_)
\* * (1 - opct)^j * opct^(k - j) * binom(k - 1, j - 1), every j
\* contributing its term.
C21_GentileWeightIsFullSum ==
    Evaluating /\ mixture.variant = "sipm_gentile" =>
       mixture.spectrum =
          PedestalWeight(mixture.variant, mixture.set, mixture.disable_pedestal)
          + SumSeq(AddedFormulaWeights)

\* the same for the variants whose weight is a closed form
C21_WhenClosedForm ==
    Evaluating /\ mixture.variant # "sipm_gentile" =>
       mixture.spectrum =
          PedestalWeight(mixture.variant, mixture.set, mixture.disable_pedestal)
          + SumSeq(AddedFormulaWeights)


----------------------------------------------------------------------------
(* The pedestal component                                                  *)

\* the sum of the weights of the components k >= 1 added so far
PeakWeights ==
    SumSeq([i \in 1..Len(mixture.components) |->
              IF mixture.components[i].k = 0 THEN 0
              ELSE mixture.components[i].p])

\* the weight of the k = 0 component in the spectrum, once the loop has
\* visited its first component
PedestalShare == mixture.spectrum - PeakWeights

\* n iterations of the loop from m on
RECURSIVE Iterations(_, _)
Iterations(m, n) ==
    IF n = 0 \/ m.pc # "loop" \/ m.k = Cap THEN m
    ELSE Iterations(Iteration(m), n - 1)

\* the same call with the pedestal enabled, after as many iterations
WithPedestal ==
    Iterations(Called(mixture.variant, mixture.set, FALSE),
               Len(mixture.visited))

----------------------------------------------------------------------------
(* The objective as a sum over the illuminations                           *)

\* the value of the entry name in the parameter vector params, 0 standing
\* for a value the vector does not hold
ValueOf(params, name) ==
    IF DictPos(parameters, name) <= Len(params)
    THEN params[DictPos(parameters, name)] ELSE 0

\* the term of illumination i (from 0) of the objective at params: the data
\* of container i, and the density of the shared m and of the s of
\* illumination i
TermOf(c, params, i) ==
    CostTerm(c.kind, c.charges[i + 1],
             Function(CostX(c.kind, c.charges[i + 1]),
                      <<ValueOf(params, "m"),
                        ValueOf(params, MultiName("s", i))>>))

\* C23: the objective of every cost variant is the sum over the
\* illuminations i = 0..N-1 of the term of container i and of the density
\* evaluated with the parameter values of illumination i, each illumination
\* contributing exactly once.
C23_ObjectiveSumsIlluminations ==
    result.op = "cost" /\ result.exc = "none" =>
       result.val =
          [j \in 1..cost.n_illuminations |-> TermOf(cost, result.arg, j - 1)]

\* the objective of a cost over two illuminations has returned
C23_Witness ==
    /\ result.op = "cost"
    /\ result.exc = "none"
    /\ cost.kind = "LeastSquares"
    /\ cost.n_illuminations = 2
    /\ Len(result.val) = 2
    /\ result.val[1] # result.val[2]


----------------------------------------------------------------------------
(* The samples a container keeps and the samples it counts                 *)

\* the samples v of values with lo <= v <= hi, in their order
Retained(values, range_) ==
    LET Inside(v) == range_[1] <= v /\ v <= range_[2]
    IN  SelectSeq(values, Inside)

C24_WhenRangeNotEmpty ==
    result.op = "ChargeContainer" /\ result.arg.range_[1] < result.arg.range_[2]
    => /\ result.val.values.data = Retained(result.arg.values, result.arg.range_)
       /\ Len(result.val.hist) = result.arg.n_bins
       /\ SumSeq(result.val.hist) = Len(result.val.values.data)


----------------------------------------------------------------------------
(* SpecPure: the PDF and the cost objects of SpecCost, with evaluations of *)
(* the density wrapper besides the reads of the cost object.               *)

\* PDF.__call__(x, parameters, i_illumination) for an illumination of the
\* PDF
Density ==
    /\ \E params \in Vectors :
         \E i \in 0..(n_illuminations - 1) :
           Call(Array(<<0>>), params, i)
    /\ UNCHANGED n_calls

NextPure == NextCost \/ Density

SpecPure == InitCost /\ [][NextPure]_vars

\* the evaluations: the density wrapper, the objective and the scores
EvaluationOps == {"call", "cost", "dof", "chi2", "reduced_chi2", "p_value"}

\* what the evaluation op gives for arg in the current state
Evaluated(op, arg) ==
    CASE op = "call" -> PDFCall(arg.x, arg.parameters, arg.i_illumination)
      [] op = "cost" -> CostCall(cost, arg)
      [] op = "dof" -> CostDof(cost)
      [] op = "chi2" -> CostChi2(cost, arg)
      [] op = "reduced_chi2" -> CostScore(cost, arg, "chi2 / dof")
      [] op = "p_value" -> CostScore(cost, arg, "chi2.sf(chi2, dof)")

\* the evaluation that has just ended gives the same outcome when it is
\* repeated
Repeatable ==
    result.op \in EvaluationOps =>
       \E e \in {Evaluated(result.op, result.arg)} :
          /\ result.exc = e.exc
          /\ result.exc = "none" => result.val = e.val

\* C25: an evaluation of the density wrapper, of a cost objective, of dof,
\* chi2, reduced_chi2 or p_value changes neither the parameter
\* declarations, the expanded entries, the lookup table nor the data
\* containers, and the same evaluation repeated gives the same result.
C25_EvaluationsChangeNothing ==
    [][result'.op \in EvaluationOps =>
          /\ UNCHANGED <<pdf_vars, cost>>
          /\ Repeatable']_vars

\* a score of a cost object has returned after the number of free
\* parameters of the PDF changed
C25_Witness ==
    /\ result.op = "reduced_chi2"
    /\ result.exc = "none"
    /\ cost.n_illuminations = 2
    /\ cost.n_free_parameters # n_free_parameters


----------------------------------------------------------------------------
(* What the update_* calls leave alone                                     *)

\* C26: an update_* call, successful or failing, changes neither the multi
\* flag of an entry, nor the names of the expanded entries and their order,
\* nor the illumination count, nor the lookup table: they stay as they were
\* right after construction.
C26_StructureNeverChanges ==
    [][/\ UNCHANGED <<n_illuminations, parameters, parameter_is_multi, lookup>>
       /\ \A j \in 1..Len(parameters) :
             heap'[parameters[j].val].multi = heap[parameters[j].val].multi]_vars

\* an update keyed by the base name of a multi declaration has set the
\* attribute on the replicas of two illuminations
C26_Witness ==
    /\ result.op = "update_parameters_fixed"
    /\ result.exc = "none"
    /\ n_illuminations = 2
    /\ \E j \in 1..Len(parameters) :
          /\ heap[parameters[j].val].multi
          /\ heap[parameters[j].val].fixed
          /\ ~DictHas(result.arg, parameters[j].key)


----------------------------------------------------------------------------
(* The scores of a fit whose chi2 is not defined                           *)

\* process or multiprocess has ended, on a list that holds an array for
\* every illumination
RunEnded ==
    /\ pool.mode = "idle"
    /\ result.op \in {"process", "multiprocess"}
    /\ Len(result.arg) >= n_illuminations

\* dict(chi2=np.nan, reduced_chi2=np.nan, p_value=np.nan)
NaNScores ==
    <<[key |-> "chi2", val |-> NaN],
      [key |-> "reduced_chi2", val |-> NaN],
      [key |-> "p_value", val |-> NaN]>>

\* C27: when the pixels are fitted with UnbinnedNLL, whose chi2 fails with
\* a ValueError, _apply_pixel does not fail: it records chi2, reduced_chi2
\* and p_value as NaN for the pixel, and records the fitted values, the
\* errors and the plotting arrays of the pixel all the same.
C27_UnbinnedScoresAreNaN ==
    RunEnded /\ fitter.cost_name = "UnbinnedNLL" =>
      /\ result.exc = "none"
      /\ \A pixel \in 0..(NPixels(result.arg[1]) - 1) :
            /\ \A d \in 1..4 : pixel \in DOMAIN ResultDicts[d]
            /\ fitter.pixel_scores[pixel] = NaNScores
            /\ DictKeys(fitter.pixel_values[pixel]) = DictKeys(parameters)
            /\ DictKeys(fitter.pixel_errors[pixel]) = DictKeys(parameters)
            /\ Len(fitter.pixel_arrays[pixel]) = n_illuminations
            /\ \A i \in 1..n_illuminations :
                  DictHas(fitter.pixel_arrays[pixel][i], "fit_y")

\* an unbinned fit of every pixel of the largest camera has ended
C27_Witness ==
    /\ RunEnded
    /\ fitter.cost_name = "UnbinnedNLL"
    /\ n_illuminations >= 1
    /\ NPixels(result.arg[1]) = MaxPixels
    /\ 1 \in DOMAIN fitter.pixel_scores


----------------------------------------------------------------------------
(* SpecPeaks: calls of find_spe_peaks (spefit/estimate.py). A spectrum is  *)
(* the sequence of its local maxima that pass the height and the width of  *)
(* scipy.signal.find_peaks, each given by its prominence in units of       *)
(* y_max / 50.                                                             *)

\* the most local maxima of a spectrum
MaxPeaks == 3

\* the number of prominences the loop tries
Steps == 50

\* the prominences of the local maxima: that of the highest step, one in
\* between, that of the last step, and one below every step
Prominences == {Steps, 30, 1, 0}

\* find_peaks(y, prominence=prominence, height=height, width=1)[0]: the
\* places of the local maxima of at least this prominence, in ascending
\* order
find_peaks(y, prominence) ==
    LET Prominent(j) == y[j] >= prominence
    IN  SelectSeq([j \in 1..Len(y) |-> j], Prominent)

\* the test that ends the loop
EnoughPeaks(peaks, max_n_peaks) == Len(peaks) >= max_n_peaks

\* the loop "for i in range(50)" from i on: the peaks it ends with, and the
\* number of prominences tried
RECURSIVE PeakLoop(_, _, _)
PeakLoop(y, max_n_peaks, i) ==
    Then(find_peaks(y, Steps - i), LAMBDA peaks :
        IF EnoughPeaks(peaks, max_n_peaks) \/ i = Steps - 1
        THEN [peaks |-> peaks, steps |-> i + 1]
        ELSE PeakLoop(y, max_n_peaks, i + 1))

\* find_spe_peaks(x, y, min_n_peaks, max_n_peaks)
find_spe_peaks(y, min_n_peaks, max_n_peaks) ==
    Then(PeakLoop(y, max_n_peaks, 0), LAMBDA r :
        IF Len(r.peaks) < min_n_peaks
        THEN [val |-> [steps |-> r.steps], exc |-> "ValueError"]
        ELSE [val |-> [peak_sigma |-> [j \in 1..Len(r.peaks) |->
                                     [fn |-> "widths * dx / width_sigma_ratio",
                                      peak |-> r.peaks[j]]],
                       peak_x |-> [j \in 1..Len(r.peaks) |->
                                     [fn |-> "x", peak |-> r.peaks[j]]],
                       peak_y |-> [j \in 1..Len(r.peaks) |->
                                     [fn |-> "peak_heights", peak |-> r.peaks[j]]],
                       steps |-> r.steps],
              exc |-> "none"])

\* a call of find_spe_peaks, which has no state: one call per behaviour
FindSpePeaks ==
    /\ n_calls = 0
    /\ n_calls' = n_calls + 1
    /\ \E y \in SeqsUpTo(Prominences, MaxPeaks) :
        \E min_n_peaks \in 0..MaxPeaks :
         \E max_n_peaks \in 1..MaxPeaks :
          \E r \in {find_spe_peaks(y, min_n_peaks, max_n_peaks)} :
            \E arg \in {[y |-> y, max_n_peaks |-> max_n_peaks,
                         min_n_peaks |-> min_n_peaks]} :
              result' = IF r.exc = "none"
                        THEN Returned("find_spe_peaks", arg, r.val)
                        ELSE Raised("find_spe_peaks", arg, r.exc, "")
    /\ UNCHANGED <<pdf_vars, cost, ext_vars>>

NextPeaks == FindSpePeaks

SpecPeaks == InitBasic /\ [][NextPeaks]_vars

\* C28: find_spe_peaks tries at most 50 prominences, and either returns a
\* number of peaks n with min_n_peaks <= n <= max_n_peaks, peak_x, peak_y
\* and peak_sigma all of length n, or fails with a ValueError, and then
\* fewer than min_n_peaks peaks were found.
C28_PeaksWithinBounds ==
    result.op = "find_spe_peaks" =>
      /\ result.exc \in {"none", "ValueError"}
      /\ result.exc = "none" =>
           /\ result.val.steps <= Steps
           /\ Len(result.val.peak_x) >= result.arg.min_n_peaks
           /\ Len(result.val.peak_x) <= result.arg.max_n_peaks
           /\ Len(result.val.peak_y) = Len(result.val.peak_x)
           /\ Len(result.val.peak_sigma) = Len(result.val.peak_x)
      /\ result.exc = "ValueError" =>
           \E t \in 1..Steps :
              Len(find_peaks(result.arg.y, t)) < result.arg.min_n_peaks

\* the same without the upper end: at least min_n_peaks peaks are returned
C28_AtLeastMin ==
    result.op = "find_spe_peaks" =>
      /\ result.exc \in {"none", "ValueError"}
      /\ result.exc = "none" =>
           /\ result.val.steps <= Steps
           /\ Len(result.val.peak_x) >= result.arg.min_n_peaks
           /\ Len(result.val.peak_y) = Len(result.val.peak_x)
           /\ Len(result.val.peak_sigma) = Len(result.val.peak_x)
      /\ result.exc = "ValueError" =>
           \E t \in 1..Steps :
              Len(find_peaks(result.arg.y, t)) < result.arg.min_n_peaks


----------------------------------------------------------------------------
(* A failing update_* call                                                 *)

\* the entries the key of an update_* call stands for: the entry of that
\* name, or else the replicas of the multi declaration of that name
EntriesOf(key) ==
    IF IsEntryName(key) THEN {key}
    ELSE {MultiName(key, i) : i \in 0..(n_illuminations - 1)}

\* the place in kwargs of the key a failing call was ended by
RejectedAt(kwargs, key) == CHOOSE j \in 1..Len(kwargs) : kwargs[j].key = key

\* C29: an update_* call applies its keys one at a time in keyword order:
\* when a key is rejected with a ValueError, the changes made for the keys
\* before it remain in effect and the keys after it are not applied.
C29_FailingUpdateKeepsEarlierKeys ==
    [][(result'.op \in UpdateOps /\ result'.exc = "ValueError"
        /\ Len(result'.arg) <= 2) =>
        LET kwargs == result'.arg
            a == AttributeOf(result'.op)
            j == RejectedAt(kwargs, result'.key)
        IN  /\ j \in Unrecognized(kwargs)
            /\ \A i \in 1..(j - 1) : i \notin Unrecognized(kwargs)
            /\ j = 1 => heap' = heap
            /\ j = 2 =>
                  /\ SetOn(EntriesOf(kwargs[1].key), a,
                           StoredValue(result'.op, kwargs[1].val))
                  /\ FrameExcept(EntriesOf(kwargs[1].key), a)]_vars

\* a call of two keys was ended by its second key after its first key
\* changed an entry
C29_Witness ==
    /\ result.op = "update_parameters_initial"
    /\ result.exc = "ValueError"
    /\ Len(result.arg) = 2
    /\ result.key = result.arg[2].key
    /\ \E j \in 1..Len(parameters) :
          /\ heap[parameters[j].val].initial = result.arg[1].val
          /\ heap[declarations[1].val].initial # result.arg[1].val

----------------------------------------------------------------------------
(* SpecCopies: two PDFs constructed from the same dict of declarations,    *)
(* update_* calls on the first, and the caller changing the list it passed *)
(* to update_parameters_limits.                                            *)

\* PDF(n, f, parameters) twice with the same dict: the variables hold the
\* attributes of the first PDF, the entries of the second are further
\* objects of the heap
InitCopies ==
    /\ \E keys \in DeclKeySeqs :
         \E multis \in [1..Len(keys) -> BOOLEAN] :
           \E n \in 0..MaxIllum :
             LET h0 == [j \in 1..Len(keys) |->
                           PDFParameter(0, Tuple(<<0, 1>>), FALSE, multis[j])]
                 d0 == [j \in 1..Len(keys) |-> [key |-> keys[j], val |-> j]]
                 first == _prepare_parameters(h0, d0, n)
                 second == _prepare_parameters(first.heap, d0, n)
             IN  /\ declarations = d0
                 /\ n_illuminations = n
                 /\ heap = second.heap
                 /\ parameters = first.parameter_dict
                 /\ parameter_is_multi = first.parameter_is_multi
                 /\ lookup = first.lookup
    /\ cost = NoCost
    /\ result = Returned("init", << >>, 0)
    /\ n_calls = 0
    /\ ExtInit

\* the objects of the declarations, of the entries of the first PDF, and of
\* the entries of the second
DeclarationRefs == {declarations[j].val : j \in 1..Len(declarations)}
EntryRefs == {parameters[j].val : j \in 1..Len(parameters)}
OtherEntryRefs == (1..Len(heap)) \ (DeclarationRefs \cup EntryRefs)

\* limit[0] = 1 on the list that was passed to update_parameters_limits:
\* the list changes in place, and so does every attribute that is this list
ListSetItem ==
    /\ result.op = "update_parameters_limits"
    /\ Len(result.arg) = 1
    /\ result.arg[1].val = List(<<0, 2>>)
    /\ result' = [result EXCEPT !.arg[1].val = List(<<1, 2>>)]
    /\ heap' = [ref \in 1..Len(heap) |->
                   IF heap[ref].limits = result.arg[1].val
                   THEN [heap[ref] EXCEPT !.limits = List(<<1, 2>>)]
                   ELSE heap[ref]]
    /\ UNCHANGED <<declarations, n_illuminations, parameters,
                   parameter_is_multi, lookup, cost, n_calls, ext_vars>>

NextCopies == UpdateInitial \/ UpdateLimits \/ UpdateFixed \/ ListSetItem

SpecCopies == InitCopies /\ [][NextCopies]_vars

(* C30: the entries of a PDF are objects of their own, apart from the      *)
(* declaration objects and from the entries of another PDF constructed     *)
(* from the same declarations; an update_* call changes neither the        *)
(* declaration objects nor the entries of the other PDF, the limits it     *)
(* stores are a tuple, and a later change of the caller's list changes no  *)
(* stored limits.                                                          *)
C30_EntriesAreIndependentCopies ==
    [][/\ EntryRefs \cap DeclarationRefs = {}
       /\ \A j, k \in 1..Len(parameters) :
            parameters[j].val = parameters[k].val => j = k
       /\ Len(heap') = Len(heap)
       /\ \A ref \in DeclarationRefs \cup OtherEntryRefs : heap'[ref] = heap[ref]
       /\ \A ref \in EntryRefs : heap'[ref].limits.type = "tuple"
       /\ n_calls' = n_calls => heap' = heap]_vars

\* the caller changed the list after a successful update_parameters_limits:
\* the entry holds the limits the call was made with, its declaration and
\* the entry of the other PDF hold the declared limits
C30_Witness ==
    /\ result.op = "update_parameters_limits"
    /\ result.exc = "none"
    /\ result.arg[1].val = List(<<1, 2>>)
    /\ \E j \in 1..Len(parameters) :
          /\ heap[parameters[j].val].limits = Tuple(<<0, 2>>)
          /\ \A ref \in DeclarationRefs \cup OtherEntryRefs :
                heap[ref].limits = Tuple(<<0, 1>>)
    /\ OtherEntryRefs # {}

=============================================================================
